---- MODULE Spec2Model ----
(***************************************************************************)
(* Registration engine (src/src/controllers/event.controller.ts) and quiz *)
(* engine (src/src/controllers/quiz.controller.ts) of the community       *)
(* backend, as state machines over the shared relational store.           *)
(*                                                                         *)
(* Every handler is an async function: each `await prisma...` is one      *)
(* atomic statement against the store, and other requests may run between *)
(* two awaits of the same handler.  A handler is therefore split at the   *)
(* awaits whose interleaving with other requests is observable; awaits    *)
(* that only append to tables nobody reads back (notifications, e-mails,  *)
(* audit log) are folded into the store write they follow.                *)
(***************************************************************************)
EXTENDS Integers, Sequences, FiniteSets, Bags, TLC

VARIABLES
    events,          \* events table: event id -> row
    registrations,   \* registrations table, in insertion order; id = position
    notifications,   \* notifications table (bag of rows)
    emails,          \* messages handed to sendEmail (bag)
    auditLog,        \* audit_logs table (bag of rows)
    now,             \* the clock read by `new Date()`
    regCalls,        \* in-flight requests of the registration engine
    quizzes,         \* quizzes table with its questions: quiz id -> row
    attempts,        \* quiz_attempts table with its answers, in insertion order
    quizCalls,       \* in-flight requests of the quiz engine
    quizResponse,    \* the latest response of the quiz engine
    everAttempted,   \* history: the (quiz, user) pairs an attempt was created for
    mailing          \* the sendMessageToUsers request and its sends

regVars == <<events, registrations, notifications, emails, auditLog, regCalls>>

quizVars == <<quizzes, attempts, quizCalls, quizResponse, everAttempted>>

vars == <<events, registrations, notifications, emails, auditLog, now, regCalls,
          quizzes, attempts, quizCalls, quizResponse, everAttempted, mailing>>

----------------------------------------------------------------------------
(* Bounds *)

\* number of requests that can be in flight at once
MaxInFlight == 2
\* largest capacity an event is created with
MaxCapacity == 2
\* latest time the clock of the quiz engine reaches
MaxTime == 3
\* number of penalties applied to one attempt
MaxPenalties == 2

----------------------------------------------------------------------------
(* Values *)

NULL == "null"

\* the value of a timestamp column that is NULL; the clock starts after it
NoTime == 0

Slots == 1..MaxInFlight

\* users table: three members with fixed profiles (studyLevel, studyProgram)
Users == {"u1", "u2", "u3"}

users == [u \in Users |->
            CASE u = "u1" -> [studyLevel |-> "Graduate",      studyProgram |-> "CS"]
              [] u = "u2" -> [studyLevel |-> "Undergraduate", studyProgram |-> NULL]
              [] u = "u3" -> [studyLevel |-> NULL,            studyProgram |-> "Math"]]

\* staff members who review registrations
Reviewers == {"s1", "s2"}

\* review comments / rejection reasons a reviewer may send
Comments == {"c1", "c2"}

\* the one event of the model, and an id no event has
EventIds == {"e1"}
MissingEvent == "e0"

\* eligibility lists an organizer may attach
LevelLists == {{}, {"Graduate"}}
ProgramLists == {{}, {"CS"}}

EventRows == [capacity : 1..MaxCapacity,
              requiresApproval : BOOLEAN,
              eligibleLevels : LevelLists,
              eligiblePrograms : ProgramLists]

IdleCall == [kind |-> "idle", pc |-> "idle", eventId |-> NULL, userId |-> NULL,
             regId |-> 0, qrToken |-> 0, comment |-> NULL, result |-> NULL,
             \* history of the request, kept for stating its contract
             fullAtStart |-> FALSE, existedAtStart |-> FALSE, insertRejected |-> FALSE,
             checkedAtStart |-> FALSE]

----------------------------------------------------------------------------
(* Store queries *)

\* event._count.registrations: every row of the event, whatever its status
CountRegistrations(e) ==
    Cardinality({i \in DOMAIN registrations : registrations[i].eventId = e})

\* prisma.registration.findUnique({ where: { eventId_userId } })
FindRegistration(e, u) ==
    {i \in DOMAIN registrations :
        registrations[i].eventId = e /\ registrations[i].userId = u}

\* UNIQUE INDEX registrations_event_id_user_id_key: may (e, u) be inserted?
UniqueEventUser_off(e, u) == TRUE

UniqueEventUser(e, u) == FindRegistration(e, u) = {}

\* the check-in tokens stored in the table
TokensInUse == {registrations[i].qrToken : i \in DOMAIN registrations}

\* uuidv4(): a random value, which is either one that is already stored or a
\* new one; new values are interchangeable and named by the next row number
Uuidv4 == TokensInUse \cup {Len(registrations) + 1}

\* UNIQUE INDEX registrations_qr_token_key: may a row with token t be inserted?
UniqueQrToken_off(t) == TRUE

UniqueQrToken(t) == t \notin TokensInUse

\* the capacity check of registerForEvent
IsFull_off(e) == CountRegistrations(e) > events[e].capacity

IsFull(e) == CountRegistrations(e) >= events[e].capacity

\* the eligibility computation of registerForEvent
LevelOk(ev, user) ==
    IF ev.eligibleLevels # {}
    THEN IF user.studyLevel # NULL
         THEN user.studyLevel \in ev.eligibleLevels
         ELSE FALSE
    ELSE TRUE

ProgramOk(ev, user, isEligible) ==
    IF ev.eligiblePrograms # {}
    THEN IF isEligible /\ user.studyProgram # NULL
         THEN user.studyProgram \in ev.eligiblePrograms
         ELSE FALSE
    ELSE isEligible

IsEligible_levelsOnly(ev, user) ==
    IF ev.requiresApproval THEN LevelOk(ev, user) ELSE TRUE

IsEligible(ev, user) ==
    IF ev.requiresApproval
    THEN ProgramOk(ev, user, LevelOk(ev, user))
    ELSE TRUE

\* the check `registration.status !== 'PENDING'` of approve / reject
IsPending_lax(row) == row.status \in {"PENDING", "CONFIRMED"}

IsPending(row) == row.status = "PENDING"

\* an exception thrown by a store call and not caught by the handler reaches
\* the error-handling middleware, which answers with a generic storage error
ErrorHandler(err) == "StorageError"

----------------------------------------------------------------------------
(* Requests *)

\* a new request takes the first free slot
FreeSlot(s) ==
    /\ regCalls[s].kind = "idle"
    /\ \A t \in Slots : t < s => regCalls[t].kind # "idle"

Finish(s, res) == [regCalls EXCEPT ![s].pc = "done", ![s].result = res]

Goto(s, label) == [regCalls EXCEPT ![s].pc = label]

\* no sendMessageToUsers request has been received
IdleMailing ==
    [pc |-> "idle", n |-> 0, i |-> 0, sends |-> <<>>, batches |-> 0,
     successCount |-> 0, failureCount |-> 0,
     response |-> [result |-> NULL, successCount |-> 0, failureCount |-> 0]]

UnchangedTables ==
    UNCHANGED <<events, registrations, notifications, emails, auditLog, now, quizVars, mailing>>

----------------------------------------------------------------------------
(* registerForEvent *)

\* lines 154-174: load the event with its registration count; 404 when it is
\* missing, 400 when the count has reached the capacity
RegisterFindEvent(s, e, u) ==
    /\ FreeSlot(s)
    /\ LET c == [IdleCall EXCEPT !.kind = "register", !.eventId = e, !.userId = u,
                     !.fullAtStart = (e \in DOMAIN events /\
                                      CountRegistrations(e) >= events[e].capacity),
                     !.existedAtStart = (FindRegistration(e, u) # {})]
       IN  regCalls' =
             [regCalls EXCEPT ![s] =
                IF e \notin DOMAIN events
                THEN [c EXCEPT !.pc = "done", !.result = "NotFound"]
                ELSE IF IsFull(e)
                THEN [c EXCEPT !.pc = "done", !.result = "CapacityExceeded"]
                ELSE [c EXCEPT !.pc = "findExisting"]]
    /\ UnchangedTables

\* lines 176-220: look for the caller's registration (400 when there is one),
\* then load the caller's profile and block the ineligible (403)
RegisterFindExisting(s) ==
    /\ regCalls[s].kind = "register"
    /\ regCalls[s].pc = "findExisting"
    /\ LET e == regCalls[s].eventId
           u == regCalls[s].userId
       IN  regCalls' =
             IF FindRegistration(e, u) # {}
             THEN Finish(s, "AlreadyRegistered")
             ELSE IF ~IsEligible(events[e], users[u])
             THEN Finish(s, "NotEligible")
             ELSE Goto(s, "create")
    /\ UnchangedTables

\* the row prisma.registration.create inserts (lines 222-235): the token
\* drawn, PENDING when the event requires approval and REGISTERED otherwise
NewRegistration(e, u, qrToken) ==
    [id |-> Len(registrations) + 1,
     eventId |-> e,
     userId |-> u,
     status |-> IF events[e].requiresApproval THEN "PENDING" ELSE "REGISTERED",
     qrToken |-> qrToken,
     checkedInAt |-> NoTime,
     reviewedBy |-> NULL,
     reviewedAt |-> NoTime,
     reviewComment |-> NULL]

\* the notification of lines 250-265
RegistrationNotification(e, u) ==
    [userId |-> u,
     type |-> "EVENT_CONFIRMATION",
     title |-> IF events[e].requiresApproval
               THEN "Event Registration Pending"
               ELSE "Event Registration Confirmed"]

\* lines 222-274: draw a token, insert the row, notify the caller, answer 201;
\* the insert throws when the unique index on (event_id, user_id) or the one
\* on qr_token rejects it
RegisterCreate(s, qrToken) ==
    /\ regCalls[s].kind = "register"
    /\ regCalls[s].pc = "create"
    /\ LET e == regCalls[s].eventId
           u == regCalls[s].userId
       IN  IF UniqueEventUser(e, u) /\ UniqueQrToken(qrToken)
           THEN /\ registrations' = Append(registrations, NewRegistration(e, u, qrToken))
                /\ notifications' = notifications (+) SetToBag({RegistrationNotification(e, u)})
                /\ regCalls' = Finish(s, "Created")
           ELSE /\ regCalls' = [regCalls EXCEPT ![s].pc = "done",
                                                ![s].result = ErrorHandler("P2002"),
                                                ![s].insertRejected = ~UniqueEventUser(e, u)]
                /\ UNCHANGED <<registrations, notifications>>
    /\ UNCHANGED <<events, emails, auditLog, now, quizVars, mailing>>

\* the response leaves and the request ends
Respond(s) ==
    /\ regCalls[s].pc = "done"
    /\ regCalls' = [regCalls EXCEPT ![s] = IdleCall]
    /\ UnchangedTables

----------------------------------------------------------------------------
(* approveRegistration / rejectRegistration *)

\* lines 543-569 and 632-658: load the registration; 404 when it is missing,
\* 400 when it is not pending
ReviewFind(s, kind, id, reviewer, comment) ==
    /\ FreeSlot(s)
    /\ LET c == [IdleCall EXCEPT !.kind = kind, !.regId = id, !.userId = reviewer,
                                 !.comment = comment]
       IN  regCalls' =
             [regCalls EXCEPT ![s] =
                IF id \notin DOMAIN registrations
                THEN [c EXCEPT !.pc = "done", !.result = "NotFound"]
                ELSE IF ~IsPending(registrations[id])
                THEN [c EXCEPT !.pc = "done", !.result = "InvalidState"]
                ELSE [c EXCEPT !.pc = "update", !.eventId = registrations[id].eventId]]
    /\ UnchangedTables

\* prisma.registration.update({ where: { id }, data }) of lines 572-580 and
\* 661-669: the row is addressed by id alone
ReviewedRow_guarded(row, status, reviewer, comment) ==
    IF row.status = "PENDING"
    THEN [row EXCEPT !.status = status, !.reviewedBy = reviewer,
                     !.reviewedAt = now, !.reviewComment = comment]
    ELSE row

ReviewedRow(row, status, reviewer, comment) ==
    [row EXCEPT !.status = status, !.reviewedBy = reviewer,
                !.reviewedAt = now, !.reviewComment = comment]

\* lines 571-625: confirm the registration, notify and e-mail its user, log
ApproveUpdate(s) ==
    /\ regCalls[s].kind = "approve"
    /\ regCalls[s].pc = "update"
    /\ LET id == regCalls[s].regId
           row == registrations[id]
       IN  /\ registrations' = [registrations EXCEPT
                 ![id] = ReviewedRow(row, "CONFIRMED", regCalls[s].userId, regCalls[s].comment)]
           /\ notifications' = notifications (+) SetToBag({
                 [userId |-> row.userId, type |-> "EVENT_CONFIRMATION",
                  title |-> "Registration Approved"]})
           /\ emails' = emails (+) SetToBag({
                 [to |-> row.userId, template |-> "registrationApproved"]})
           /\ auditLog' = auditLog (+) SetToBag({
                 [actorId |-> regCalls[s].userId, action |-> "APPROVE_REGISTRATION",
                  entityId |-> id]})
    /\ now' = now + 1
    /\ regCalls' = Finish(s, "Approved")
    /\ UNCHANGED <<events, quizVars, mailing>>

\* lines 660-714: reject the registration, notify and e-mail its user, log
RejectUpdate(s) ==
    /\ regCalls[s].kind = "reject"
    /\ regCalls[s].pc = "update"
    /\ LET id == regCalls[s].regId
           row == registrations[id]
       IN  /\ registrations' = [registrations EXCEPT
                 ![id] = ReviewedRow(row, "REJECTED", regCalls[s].userId, regCalls[s].comment)]
           /\ notifications' = notifications (+) SetToBag({
                 [userId |-> row.userId, type |-> "EVENT_UPDATE",
                  title |-> "Registration Not Approved"]})
           /\ emails' = emails (+) SetToBag({
                 [to |-> row.userId, template |-> "registrationRejected"]})
           /\ auditLog' = auditLog (+) SetToBag({
                 [actorId |-> regCalls[s].userId, action |-> "REJECT_REGISTRATION",
                  entityId |-> id]})
    /\ now' = now + 1
    /\ regCalls' = Finish(s, "Rejected")
    /\ UNCHANGED <<events, quizVars, mailing>>

----------------------------------------------------------------------------
\* number of rows of bag B among the distinct rows S
RECURSIVE SumCopies(_, _)
SumCopies(S, B) ==
    IF S = {} THEN 0
    ELSE LET x == CHOOSE y \in S : TRUE
         IN  CopiesIn(x, B) + SumCopies(S \ {x}, B)

----------------------------------------------------------------------------
(* Quiz engine: values *)

QuizUsers == {"u1"}

QuizIds == {"q1"}
MissingQuiz == "q0"

\* the quiz of the model: open at time 2 only, 30 seconds per question
TheQuiz ==
    [status |-> "UPCOMING",
     startAt |-> 2,
     endAt |-> 2,
     timeLimit |-> 30,
     questions |-> <<
        [id |-> "k1", points |-> 1000,
         options |-> <<[id |-> "a", isCorrect |-> TRUE], [id |-> "b", isCorrect |-> FALSE]>>],
        [id |-> "k2", points |-> 500,
         options |-> <<[id |-> "a", isCorrect |-> FALSE], [id |-> "b", isCorrect |-> TRUE]>>] >>]

\* request bodies of submitQuizAnswers: an unhurried honest sheet, and a
\* hurried one with tab switches
CleanBody ==
    [answers |-> <<[questionId |-> "k1", selectedOption |-> "a", timeSpent |-> 6000],
                   [questionId |-> "k2", selectedOption |-> "a", timeSpent |-> 3000]>>,
     tabSwitches |-> 0, afkIncidents |-> 0, inactivityPeriods |-> <<>>,
     screenshotAttempts |-> 0, detectedExtensions |-> <<>>]

FastBody ==
    [answers |-> <<[questionId |-> "k1", selectedOption |-> "a", timeSpent |-> 500],
                   [questionId |-> "k2", selectedOption |-> "b", timeSpent |-> 400]>>,
     tabSwitches |-> 4, afkIncidents |-> 0, inactivityPeriods |-> <<>>,
     screenshotAttempts |-> 0, detectedExtensions |-> <<>>]

SubmitBodies == {CleanBody, FastBody}

\* pointsToReduce and reason of reduceParticipantPoints
PenaltyPoints == {0, 200}
PenaltyReasons == {"test"}

----------------------------------------------------------------------------
(* Quiz engine: scoring and anti-cheat detection of submitQuizAnswers *)

\* the sum of the first n elements of a sequence, and of all of them
RECURSIVE SumUpTo(_, _)
SumUpTo(seq, n) == IF n = 0 THEN 0 ELSE SumUpTo(seq, n - 1) + seq[n]

SumSeq(seq) == SumUpTo(seq, Len(seq))

Times(answers) == [i \in DOMAIN answers |-> answers[i].timeSpent]

CountTimes(answers, P(_)) == Cardinality({i \in DOMAIN answers : P(answers[i].timeSpent)})

Min(a, b) == IF a < b THEN a ELSE b
Max(a, b) == IF a > b THEN a ELSE b

\* the nearest integer to maxPoints * (2 * timeLimit - t) / (2 * timeLimit),
\* halves going up
RoundedShare(maxPoints, t, timeLimitMs) ==
    (2 * maxPoints * (2 * timeLimitMs - t) + 2 * timeLimitMs) \div (4 * timeLimitMs)

\* the inputs <<maxPoints, timeSpent, timeLimit>> of the model on which the
\* product maxPoints * timeBonus, computed in double precision, falls just
\* below the half that exact arithmetic reaches:
\* 1000 * (1 - (7710 / 30000) * 0.5) is 871.4999999999999, not 871.5
ProductBelowHalf == {<<1000, 7710, 30000>>}

\* Math.round(maxPoints * (1 - (timeSpent / timeLimit) * 0.5)), timeSpent
\* capped at timeLimit, in the double arithmetic of the language
PointsEarned(maxPoints, timeSpentMs, timeLimitMs) ==
    LET t == Min(timeSpentMs, timeLimitMs)
    IN  IF <<maxPoints, t, timeLimitMs>> \in ProductBelowHalf
        THEN RoundedShare(maxPoints, t, timeLimitMs) - 1
        ELSE RoundedShare(maxPoints, t, timeLimitMs)

\* quiz.questions.find / options.find: the positions that match
FindById(seq, id) == {i \in DOMAIN seq : seq[i].id = id}

First(S) == CHOOSE i \in S : \A j \in S : i <= j

\* one element of answerData; only called for a known question
ScoredAnswer(quiz, answer) ==
    LET question == quiz.questions[First(FindById(quiz.questions, answer.questionId))]
        found == FindById(question.options, answer.selectedOption)
        isCorrect == IF found = {} THEN FALSE ELSE question.options[First(found)].isCorrect
    IN  [questionId |-> answer.questionId,
         selectedOption |-> answer.selectedOption,
         isCorrect |-> isCorrect,
         timeSpent |-> answer.timeSpent,
         pointsEarned |-> IF isCorrect
                          THEN PointsEarned(question.points, answer.timeSpent,
                                            quiz.timeLimit * 1000)
                          ELSE 0]

\* answers.map(...).filter(Boolean): answers of unknown questions are dropped
AnswerData(quiz, answers) ==
    LET known == SelectSeq(answers,
                           LAMBDA a : FindById(quiz.questions, a.questionId) # {})
    IN  [i \in DOMAIN known |-> ScoredAnswer(quiz, known[i])]

TotalScore_firstOnly(answerData) ==
    IF answerData = <<>> THEN 0 ELSE answerData[1].pointsEarned

TotalScore(answerData) ==
    SumSeq([i \in DOMAIN answerData |-> answerData[i].pointsEarned])

\* an entry of suspiciousActivities, or a penalty annotation, in flagReason
Reason(rule, n) == [rule |-> rule, n |-> n, note |-> NULL]

IsFast(t) == t < 1000
IsMedium(t) == t >= 5000 /\ t <= 20000
IsVeryLong(t) == t > 30000
IsLongInactivity_lax(d) == d >= 15000
IsLongInactivity(d) == d > 15000

LongInactivity(body) ==
    Cardinality({i \in DOMAIN body.inactivityPeriods :
                    IsLongInactivity(body.inactivityPeriods[i])})

\* the values of answers.length in the model for which the double product
\* answers.length * 0.7 falls below the integer 7 * length / 10:
\* 90 * 0.7 is 62.99999999999999
SeventyPercentBelow == {90}

\* mediumDelayAnswers > answers.length * 0.7
ConsistentTimingPattern(medium, n) ==
    IF n \in SeventyPercentBelow THEN 10 * medium >= 7 * n ELSE 10 * medium > 7 * n

RECURSIVE Gcd(_, _)
Gcd(a, b) == IF b = 0 THEN a ELSE Gcd(b, a % b)

Abs(x) == IF x < 0 THEN 0 - x ELSE x

RECURSIVE GcdOf(_)
GcdOf(S) ==
    IF S = {} THEN 0
    ELSE LET x == CHOOSE y \in S : TRUE IN Gcd(x, GcdOf(S \ {x}))

\* the greatest common divisor of the times of a sheet
TimeUnit(times) == GcdOf({Abs(times[i]) : i \in DOMAIN times})

\* coefficientOfVariation < 0.3, for a positive mean: with n values of sum S
\* and sum of squares Q the variance is (n * Q - S * S) / (n * n), so the test
\* is 100 * (n * Q - S * S) < 9 * S * S; the coefficient does not depend on
\* the unit of time, and the sums are taken in the largest unit that keeps
\* every time whole
LowVariation(times) ==
    LET unit == TimeUnit(times)
        n == Len(times)
        S == SumSeq([i \in DOMAIN times |-> times[i] \div unit])
        Q == SumSeq([i \in DOMAIN times |-> (times[i] \div unit) * (times[i] \div unit)])
    IN  100 * (n * Q - S * S) < 9 * S * S

\* rule 5: consistentTimingPattern, the coefficient of variation
\* sqrt(variance) / mean below 0.3 and the mean above 5000
PhonePattern(answers) ==
    LET n == Len(answers)
        S == SumSeq(Times(answers))
    IN  /\ n > 0
        /\ ConsistentTimingPattern(CountTimes(answers, IsMedium), n)
        /\ S > 5000 * n
        /\ LowVariation(Times(answers))

\* the rules that report, in order, each with whether it flags the attempt
Detections(body) ==
    LET answers == body.answers
        n == Len(answers)
        S == SumSeq(Times(answers))
        fast == CountTimes(answers, IsFast)
        long == CountTimes(answers, IsVeryLong)
        idle == LongInactivity(body)
    IN  (IF body.tabSwitches > 3
         THEN <<[reason |-> Reason("tabSwitches", body.tabSwitches), flags |-> TRUE]>>
         ELSE <<>>)
        \o (IF n > 0 /\ S < 2000 * n
            THEN <<[reason |-> Reason("answeredTooFast", (2 * S + n) \div (2 * n)),
                    flags |-> TRUE]>>
            ELSE <<>>)
        \o (IF 2 * fast > n
            THEN <<[reason |-> Reason("underOneSecond", fast), flags |-> TRUE]>>
            ELSE <<>>)
        \o (IF body.afkIncidents > 2
            THEN <<[reason |-> Reason("afkIncidents", body.afkIncidents), flags |-> TRUE]>>
            ELSE <<>>)
        \o (IF PhonePattern(answers)
            THEN <<[reason |-> Reason("externalDevice", (2 * S + 1000 * n) \div (2000 * n)),
                    flags |-> TRUE]>>
            ELSE <<>>)
        \o (IF long > 2
            THEN <<[reason |-> Reason("overThirtySeconds", long), flags |-> TRUE]>>
            ELSE <<>>)
        \o (IF Len(body.inactivityPeriods) > 0 /\ idle > 1
            THEN <<[reason |-> Reason("inactivity", idle), flags |-> idle > 3]>>
            ELSE <<>>)
        \o (IF body.screenshotAttempts > 0
            THEN <<[reason |-> Reason("screenshots", body.screenshotAttempts),
                    flags |-> body.screenshotAttempts > 2]>>
            ELSE <<>>)
        \o (IF Len(body.detectedExtensions) > 0
            THEN <<[reason |-> Reason("extensions", Len(body.detectedExtensions)),
                    flags |-> TRUE]>>
            ELSE <<>>)

SuspiciousActivities_first(body) ==
    LET d == Detections(body) IN IF d = <<>> THEN <<>> ELSE <<d[1].reason>>

\* suspiciousActivities; flagReason is its join, and NULL (here <<>>) when empty
SuspiciousActivities(body) ==
    LET d == Detections(body) IN [i \in DOMAIN d |-> d[i].reason]

IsFlagged(body) ==
    LET d == Detections(body) IN \E i \in DOMAIN d : d[i].flags

\* the data of prisma.quizAttempt.create (lines 433-451); completedAt is set
\* by the store when the row is inserted
NewAttempt(q, u, quiz, body) ==
    LET answerData == AnswerData(quiz, body.answers)
    IN  [quizId |-> q,
         userId |-> u,
         totalScore |-> TotalScore(answerData),
         answers |-> answerData,
         tabSwitches |-> body.tabSwitches,
         afkIncidents |-> body.afkIncidents,
         screenshotAttempts |-> body.screenshotAttempts,
         suspiciousExtensions |-> body.detectedExtensions,
         inactivityPeriods |-> body.inactivityPeriods,
         isFlagged |-> IsFlagged(body),
         flagReason |-> SuspiciousActivities(body),
         completedAt |-> NoTime]

----------------------------------------------------------------------------
(* Quiz engine: requests.  A request that is between two store calls holds *)
(* a slot of quizCalls; when it answers, its response replaces             *)
(* quizResponse and the slot is free again.                                *)

IdleQuizCall ==
    [kind |-> "idle", pc |-> "idle", quizId |-> NULL, userId |-> NULL,
     body |-> CleanBody, draft |-> NewAttempt(NULL, NULL, TheQuiz, CleanBody),
     points |-> 0, reason |-> NULL, oldScore |-> 0, oldReason |-> <<>>,
     readAt |-> NoTime, listed |-> [q \in QuizIds |-> TheQuiz], toUpdate |-> {},
     update |-> [timeLimit |-> 0, questions |-> <<>>], hasAttempts |-> FALSE,
     \* history of the request, kept for stating its contract
     insertRejected |-> FALSE]

NoResponse ==
    [kind |-> "none", quizId |-> NULL, userId |-> NULL, result |-> NULL,
     existedAtStart |-> FALSE, insertRejected |-> FALSE,
     rank |-> 0, data |-> <<>>]

FreeQuizSlot(s) ==
    /\ quizCalls[s].kind = "idle"
    /\ \A t \in Slots : t < s => quizCalls[t].kind # "idle"

\* res.json / res.status(...).json of a request that held no slot
Answer(kind, q, u, res, existed) ==
    quizResponse' = [kind |-> kind, quizId |-> q, userId |-> u, result |-> res,
                     existedAtStart |-> existed, insertRejected |-> FALSE,
                     rank |-> 0, data |-> <<>>]

\* res.json / res.status(...).json of the request in slot s; rank is the rank
\* a successful submission reports, 0 in every other response
AnswerRanked(s, res, rejected, rank) ==
    /\ quizResponse' = [kind |-> quizCalls[s].kind, quizId |-> quizCalls[s].quizId,
                        userId |-> quizCalls[s].userId, result |-> res,
                        existedAtStart |-> FALSE, insertRejected |-> rejected,
                        rank |-> rank, data |-> <<>>]
    /\ quizCalls' = [quizCalls EXCEPT ![s] = IdleQuizCall]

AnswerFrom(s, res, rejected) == AnswerRanked(s, res, rejected, 0)

\* prisma.quizAttempt.findUnique({ where: { quizId_userId } }): the positions
\* of the rows of (q, u)
FindAttempt(q, u) ==
    {i \in DOMAIN attempts : attempts[i].quizId = q /\ attempts[i].userId = u}

\* the unique index behind quizId_userId: may an attempt of (q, u) be inserted?
UniqueQuizUser_off(q, u) == TRUE

UniqueQuizUser(q, u) == FindAttempt(q, u) = {}

\* the check `if (existingAttempt)` of submitQuizAnswers
HasAttempted_off(q, u) == FALSE

HasAttempted(q, u) == FindAttempt(q, u) # {}

\* lines 267-294: 400 when the caller has an attempt for the quiz
SubmitFindAttempt(s, q, u, body) ==
    /\ IF HasAttempted(q, u)
       THEN /\ Answer("submit", q, u, "AlreadySubmitted", FindAttempt(q, u) # {})
            /\ UNCHANGED quizCalls
       ELSE /\ FreeQuizSlot(s)
            /\ quizCalls' = [quizCalls EXCEPT ![s] =
                  [IdleQuizCall EXCEPT !.kind = "submit", !.pc = "loadQuiz",
                                       !.quizId = q, !.userId = u, !.body = body]]
            /\ UNCHANGED quizResponse
    /\ UNCHANGED <<regVars, mailing, now, quizzes, attempts, everAttempted>>

\* the window test of line 313
IsActive_open(quiz) == TRUE

IsActive(quiz) == ~(now < quiz.startAt \/ now > quiz.endAt)

\* lines 296-430: load the quiz with its questions (404 when missing), refuse
\* outside the window (400), then run the detection and score the answers
SubmitLoadQuiz(s) ==
    /\ quizCalls[s].kind = "submit"
    /\ quizCalls[s].pc = "loadQuiz"
    /\ LET q == quizCalls[s].quizId
       IN  IF q \notin DOMAIN quizzes
           THEN AnswerFrom(s, "NotFound", FALSE)
           ELSE IF ~IsActive(quizzes[q])
           THEN AnswerFrom(s, "QuizNotActive", FALSE)
           ELSE /\ quizCalls' = [quizCalls EXCEPT
                     ![s].pc = "create",
                     ![s].draft = NewAttempt(q, quizCalls[s].userId, quizzes[q],
                                             quizCalls[s].body)]
                /\ UNCHANGED quizResponse
    /\ UNCHANGED <<regVars, mailing, now, quizzes, attempts, everAttempted>>

\* lines 462-469: prisma.quizAttempt.count({ where: { quizId, totalScore:
\* { gt: totalScore } } }) + 1 over the rows of the table
SubmitRank(rows, q, totalScore) ==
    Cardinality({i \in DOMAIN rows :
                    rows[i].quizId = q /\ rows[i].totalScore > totalScore}) + 1

\* the relation of an answer to its question (include: { question: true },
\* line 455): may answers naming these questions be inserted for quiz q?
QuestionsExist(q, answers) ==
    \A k \in DOMAIN answers : FindById(quizzes[q].questions, answers[k].questionId) # {}

\* lines 432-476: insert the attempt with its answers, count the attempts of
\* the quiz with a greater score and answer with the rank; the insert throws
\* when the unique index on (quiz, user) rejects it or when an answer names
\* a question that is no longer there
SubmitCreate(s) ==
    /\ quizCalls[s].kind = "submit"
    /\ quizCalls[s].pc = "create"
    /\ LET q == quizCalls[s].quizId
           u == quizCalls[s].userId
       IN  IF UniqueQuizUser(q, u) /\ QuestionsExist(q, quizCalls[s].draft.answers)
           THEN /\ attempts' = Append(attempts, [quizCalls[s].draft EXCEPT !.completedAt = now])
                /\ everAttempted' = everAttempted \cup {<<q, u>>}
                /\ AnswerRanked(s, "Submitted", FALSE,
                                SubmitRank(attempts', q, quizCalls[s].draft.totalScore))
           ELSE /\ AnswerFrom(s, ErrorHandler("P2002"), ~UniqueQuizUser(q, u))
                /\ UNCHANGED <<attempts, everAttempted>>
    /\ UNCHANGED <<regVars, mailing, now, quizzes>>

\* penalties applied or about to be: each applied penalty sends one e-mail
PenaltiesStarted ==
    SumCopies({m \in BagToSet(emails) : m.template = "pointsReduced"}, emails)
    + Cardinality({t \in Slots : quizCalls[t].kind = "penalty"})

\* lines 537-565: 400 unless pointsToReduce is positive, 404 when the user has
\* no attempt for the quiz; otherwise the attempt read is kept for the update
PenaltyFind(s, q, u, points, reason) ==
    /\ PenaltiesStarted < MaxPenalties
    /\ LET found == FindAttempt(q, u)
       IN  IF ~(points > 0)
           THEN /\ Answer("penalty", q, u, "InvalidInput", found # {})
                /\ UNCHANGED quizCalls
           ELSE IF found = {}
           THEN /\ Answer("penalty", q, u, "NotFound", FALSE)
                /\ UNCHANGED quizCalls
           ELSE /\ FreeQuizSlot(s)
                /\ quizCalls' = [quizCalls EXCEPT ![s] =
                      [IdleQuizCall EXCEPT
                          !.kind = "penalty", !.pc = "update", !.quizId = q, !.userId = u,
                          !.points = points, !.reason = reason,
                          !.oldScore = attempts[First(found)].totalScore,
                          !.oldReason = attempts[First(found)].flagReason]]
                /\ UNCHANGED quizResponse
    /\ UNCHANGED <<regVars, mailing, now, quizzes, attempts, everAttempted>>

\* the data of prisma.quizAttempt.update (lines 567-583), computed from the
\* attempt as it was read
PenalizedRow(row, call) ==
    [row EXCEPT
       !.totalScore = Max(0, call.oldScore - call.points),
       !.flagReason = call.oldReason \o
                        <<[rule |-> "PENALTY", n |-> call.points, note |-> call.reason]>>,
       !.isFlagged = TRUE]

\* lines 567-638: write the reduced score and the annotation to the row of
\* (quiz, user), e-mail the user, answer; the update throws when the row is gone
PenaltyUpdate(s) ==
    /\ quizCalls[s].kind = "penalty"
    /\ quizCalls[s].pc = "update"
    /\ LET found == FindAttempt(quizCalls[s].quizId, quizCalls[s].userId)
       IN  IF found = {}
           THEN /\ AnswerFrom(s, ErrorHandler("P2025"), FALSE)
                /\ UNCHANGED <<attempts, emails>>
           ELSE /\ attempts' = [i \in DOMAIN attempts |->
                                  IF i \in found
                                  THEN PenalizedRow(attempts[i], quizCalls[s])
                                  ELSE attempts[i]]
                /\ emails' = emails (+) SetToBag({
                      [to |-> quizCalls[s].userId, template |-> "pointsReduced"]})
                /\ AnswerFrom(s, "Penalized", FALSE)
    /\ UNCHANGED <<events, registrations, notifications, auditLog, regCalls, mailing,
                   now, quizzes, everAttempted>>

\* prisma.quizAttempt.deleteMany({ where: { quizId, userId } })
WithoutAttempts(q, u) ==
    SelectSeq(attempts, LAMBDA row : ~(row.quizId = q /\ row.userId = u))

\* lines 706-743: 404 when the quiz is missing or the user has no attempt for
\* it; otherwise every attempt of the user for the quiz is deleted
DeleteQuizParticipant(q, u) ==
    /\ IF q \notin DOMAIN quizzes \/ FindAttempt(q, u) = {}
       THEN /\ Answer("delete", q, u, "NotFound", FALSE)
            /\ UNCHANGED attempts
       ELSE /\ Answer("delete", q, u, "Deleted", TRUE)
            /\ attempts' = WithoutAttempts(q, u)
    /\ UNCHANGED <<regVars, mailing, now, quizzes, quizCalls, everAttempted>>

\* time passes
Tick ==
    /\ now < MaxTime
    /\ now' = now + 1
    /\ UNCHANGED <<regVars, quizVars, mailing>>

----
(* Specification of registration: concurrent registerForEvent requests of  *)
(* three users on one event of any configuration                           *)

EmptyTables ==
    /\ registrations = <<>>
    /\ notifications = EmptyBag
    /\ emails = EmptyBag
    /\ auditLog = EmptyBag
    /\ now = 1
    /\ regCalls = [s \in Slots |-> IdleCall]
    /\ quizzes = [q \in QuizIds |-> TheQuiz]
    /\ attempts = <<>>
    /\ quizCalls = [s \in Slots |-> IdleQuizCall]
    /\ quizResponse = NoResponse
    /\ everAttempted = {}
    /\ mailing = IdleMailing

Init ==
    /\ events \in [EventIds -> EventRows]
    /\ EmptyTables

Next ==
    \/ \E s \in Slots, e \in EventIds \cup {MissingEvent}, u \in Users :
          RegisterFindEvent(s, e, u)
    \/ \E s \in Slots : RegisterFindExisting(s)
    \/ \E s \in Slots, t \in Uuidv4 : RegisterCreate(s, t)
    \/ \E s \in Slots : Respond(s)

Spec == Init /\ [][Next]_vars

----------------------------------------------------------------------------
(* Specification of the review workflow: registrations of one user on an   *)
(* unrestricted event, approved and rejected by two concurrent reviewers   *)

ReviewUsers == {"u1"}

ReviewInit ==
    /\ events \in [EventIds -> {ev \in EventRows :
                      /\ ev.capacity = MaxCapacity
                      /\ ev.eligibleLevels = {}
                      /\ ev.eligiblePrograms = {}}]
    /\ EmptyTables

ReviewNext ==
    \/ \E s \in Slots, e \in EventIds, u \in ReviewUsers :
          RegisterFindEvent(s, e, u)
    \/ \E s \in Slots : RegisterFindExisting(s)
    \/ \E s \in Slots, t \in Uuidv4 : RegisterCreate(s, t)
    \/ \E s \in Slots, kind \in {"approve", "reject"},
          id \in 0..Len(registrations), r \in Reviewers, c \in Comments :
          ReviewFind(s, kind, id, r, c)
    \/ \E s \in Slots : ApproveUpdate(s)
    \/ \E s \in Slots : RejectUpdate(s)
    \/ \E s \in Slots : Respond(s)

ReviewSpec == ReviewInit /\ [][ReviewNext]_vars

----------------------------------------------------------------------------
(* Claims about registration, checked under Spec *)

DoneRegister(s) == regCalls[s].kind = "register" /\ regCalls[s].pc = "done"

\* rows of event e that hold a place
ActiveRegistrations(e) ==
    {i \in DOMAIN registrations :
        registrations[i].eventId = e /\ registrations[i].status # "CANCELLED"}

\* C1: for every event, after any interleaving of register calls of distinct
\* users, the number of registrations whose status is not CANCELLED never
\* exceeds the event's capacity.
C1_CapacityNeverExceeded ==
    \A e \in DOMAIN events :
        Cardinality(ActiveRegistrations(e)) <= events[e].capacity

AtMostOneRowPerEventUser ==
    \A e \in DOMAIN events, u \in Users : Cardinality(FindRegistration(e, u)) <= 1

\* C2 as written: register called again for an (event, user) that already has
\* a row never creates a second row and returns AlreadyRegistered, whatever the
\* capacity and the number of places left.
C2_SecondCallAlreadyRegistered ==
    /\ AtMostOneRowPerEventUser
    /\ \A s \in Slots :
          DoneRegister(s) /\ regCalls[s].existedAtStart
             => regCalls[s].result = "AlreadyRegistered"

\* C2 as amended: register called again for an (event, user) that already has
\* a row never creates a second row; it returns AlreadyRegistered when the
\* event still has places and CapacityExceeded when the event is full, the
\* capacity check coming first.
C2_SecondCallRejected ==
    /\ AtMostOneRowPerEventUser
    /\ \A s \in Slots :
          DoneRegister(s) /\ regCalls[s].existedAtStart
             => regCalls[s].result = IF regCalls[s].fullAtStart
                                     THEN "CapacityExceeded"
                                     ELSE "AlreadyRegistered"

C2_Witness ==
    \E s \in Slots :
        /\ DoneRegister(s)
        /\ regCalls[s].existedAtStart
        /\ ~regCalls[s].fullAtStart
        /\ regCalls[s].result = "AlreadyRegistered"
        /\ Cardinality(FindRegistration(regCalls[s].eventId, regCalls[s].userId)) = 1

\* C4: a register call whose insert is rejected by the uniqueness constraint,
\* because a concurrent call for the same (event, user) inserted first, reports
\* AlreadyRegistered like a sequential duplicate, not a storage error.
C4_RejectedInsertIsAlreadyRegistered ==
    \A s \in Slots :
        DoneRegister(s) /\ regCalls[s].insertRejected
           => regCalls[s].result = "AlreadyRegistered"

\* the eligibility rule as the specification words it
Ineligible(ev, user) ==
    /\ ev.requiresApproval
    /\ \/ ev.eligibleLevels # {} /\ user.studyLevel \notin ev.eligibleLevels
       \/ ev.eligiblePrograms # {} /\ user.studyProgram \notin ev.eligiblePrograms

C9_Outcome(c) ==
    LET e == c.eventId
        u == c.userId
    IN  /\ c.result = "NotFound" <=> e \notin DOMAIN events
        /\ e \in DOMAIN events =>
             /\ c.result = "CapacityExceeded" <=> c.fullAtStart
             /\ ~c.fullAtStart /\ c.existedAtStart => c.result = "AlreadyRegistered"
             /\ ~c.fullAtStart /\ ~c.existedAtStart /\ Ineligible(events[e], users[u])
                   => c.result = "NotEligible"
             /\ c.result = "AlreadyRegistered" => FindRegistration(e, u) # {}
             /\ c.result = "NotEligible"
                   => Ineligible(events[e], users[u]) /\ FindRegistration(e, u) = {}

C9_FailureChangesNothing ==
    \A s \in Slots :
        /\ regCalls[s].pc # "done"
        /\ regCalls'[s].kind = "register"
        /\ regCalls'[s].pc = "done"
        /\ regCalls'[s].result # "Created"
        => registrations' = registrations /\ notifications' = notifications

\* C9: the outcome of register is that of the first failing check in the order
\* event missing (NotFound), event full (CapacityExceeded), registration exists
\* (AlreadyRegistered), user ineligible (NotEligible); and a call that fails
\* creates no registration row and emits no notification.
C9_FirstFailingCheckWins ==
    /\ [](\A s \in Slots : DoneRegister(s) => C9_Outcome(regCalls[s]))
    /\ [][C9_FailureChangesNothing]_vars

C9_Witness ==
    \E s \in Slots :
        /\ DoneRegister(s)
        /\ regCalls[s].fullAtStart
        /\ regCalls[s].existedAtStart
        /\ regCalls[s].result = "CapacityExceeded"

\* C10: on an event that requires approval, a register call that reaches the
\* eligibility check returns NotEligible when a non-empty list does not hold
\* the user's attribute (missing or different), and no row ever exists for
\* such a user; a user who satisfies every non-empty list, and any user when
\* both lists are empty, is never answered NotEligible.
C10_EligibilityBlocks ==
    /\ \A s \in Slots :
          DoneRegister(s) /\ regCalls[s].eventId \in DOMAIN events
             => LET ev == events[regCalls[s].eventId]
                    user == users[regCalls[s].userId]
                IN  ev.requiresApproval =>
                      /\ Ineligible(ev, user) /\ ~regCalls[s].fullAtStart
                            => regCalls[s].result = "NotEligible"
                      /\ Ineligible(ev, user)
                            => regCalls[s].result \in {"NotEligible", "CapacityExceeded"}
                      /\ ~Ineligible(ev, user) => regCalls[s].result # "NotEligible"
    /\ \A i \in DOMAIN registrations :
          ~Ineligible(events[registrations[i].eventId], users[registrations[i].userId])

C10_Witness ==
    \E s \in Slots :
        /\ DoneRegister(s)
        /\ regCalls[s].result = "NotEligible"
        /\ events[regCalls[s].eventId].eligibleLevels # {}
        /\ users[regCalls[s].userId].studyLevel = NULL

----------------------------------------------------------------------------
(* Claims about the review workflow, checked under ReviewSpec *)

\* number of approve / reject calls that succeeded on registration id: each
\* success writes one audit row naming the registration
SuccessfulReviews(id) ==
    SumCopies({a \in BagToSet(auditLog) : a.entityId = id}, auditLog)

\* C5: on any registration, whatever the interleaving of approve and reject
\* calls of two reviewers, at most one call succeeds.
C5_AtMostOneReviewSucceeds ==
    \A id \in DOMAIN registrations : SuccessfulReviews(id) <= 1

\* a request for approve or reject arrives at slot s in this step
ReviewArrives(s) ==
    regCalls[s].kind = "idle" /\ regCalls'[s].kind \in {"approve", "reject"}

C6_Step ==
    \A s \in Slots :
        ReviewArrives(s) =>
            LET id == regCalls'[s].regId
            IN  /\ id \notin DOMAIN registrations
                   => /\ regCalls'[s].pc = "done"
                      /\ regCalls'[s].result = "NotFound"
                /\ id \in DOMAIN registrations /\ registrations[id].status # "PENDING"
                   => /\ regCalls'[s].pc = "done"
                      /\ regCalls'[s].result = "InvalidState"
                /\ regCalls'[s].pc = "done"
                   => /\ registrations' = registrations
                      /\ notifications' = notifications
                      /\ emails' = emails

\* C6: approve or reject called on a registration that is not PENDING returns
\* InvalidState, leaves the registration's status, reviewer, review timestamp
\* and comment unchanged and emits no notification or e-mail; called on a
\* missing registration it returns NotFound.
C6_NonPendingIsInvalidState == [][C6_Step]_vars

C6_Witness ==
    \E s \in Slots :
        /\ regCalls[s].kind = "approve"
        /\ regCalls[s].pc = "done"
        /\ regCalls[s].result = "InvalidState"
        /\ registrations[regCalls[s].regId].status = "CONFIRMED"
        /\ registrations[regCalls[s].regId].reviewedBy # regCalls[s].userId

C7_Step ==
    \A i \in DOMAIN registrations :
        registrations'[i].status # registrations[i].status
           => /\ registrations[i].status = "PENDING"
              /\ registrations'[i].status \in {"CONFIRMED", "REJECTED"}

\* C7: a registration's status changes only from PENDING to CONFIRMED or from
\* PENDING to REJECTED; a REGISTERED, CONFIRMED or REJECTED registration never
\* changes status again.
C7_OnlyPendingTransitions == [][C7_Step]_vars

----------------------------------------------------------------------------
(* Specification of the quiz engine: a user submits to one quiz while      *)
(* staff reduce points and delete participants, and time passes            *)

QuizInit ==
    /\ events = [e \in EventIds |->
                   [capacity |-> MaxCapacity, requiresApproval |-> FALSE,
                    eligibleLevels |-> {}, eligiblePrograms |-> {}]]
    /\ EmptyTables

QuizNext ==
    \/ \E s \in Slots, q \in QuizIds \cup {MissingQuiz}, u \in QuizUsers, b \in SubmitBodies :
          SubmitFindAttempt(s, q, u, b)
    \/ \E s \in Slots : SubmitLoadQuiz(s)
    \/ \E s \in Slots : SubmitCreate(s)
    \/ \E s \in Slots, q \in QuizIds, u \in QuizUsers,
          p \in PenaltyPoints, r \in PenaltyReasons :
          PenaltyFind(s, q, u, p, r)
    \/ \E s \in Slots : PenaltyUpdate(s)
    \/ \E q \in QuizIds \cup {MissingQuiz}, u \in QuizUsers :
          DeleteQuizParticipant(q, u)
    \/ Tick

QuizSpec == QuizInit /\ [][QuizNext]_vars

----------------------------------------------------------------------------
(* Claims about attempts *)

\* the attempts of user u for quiz q, in insertion order
AttemptsOf(q, u) ==
    SelectSeq(attempts, LAMBDA row : row.quizId = q /\ row.userId = u)

\* a submission arriving in this step for a (quiz, user) that has an attempt
\* is answered AlreadySubmitted and leaves the attempts table as it is
C3_Step ==
    \A s \in Slots, q \in QuizIds, u \in QuizUsers, b \in SubmitBodies :
        SubmitFindAttempt(s, q, u, b) /\ FindAttempt(q, u) # {}
            => /\ quizResponse'.kind = "submit"
               /\ quizResponse'.result = "AlreadySubmitted"
               /\ attempts' = attempts

\* C3: in every reachable state at most one attempt exists per (quiz, user),
\* and a submission by a user who already has an attempt for the quiz returns
\* AlreadySubmitted and leaves the stored attempt, its answers and its score
\* unchanged.
C3_SecondSubmissionRefused ==
    /\ [](\A q \in QuizIds, u \in QuizUsers : Cardinality(FindAttempt(q, u)) <= 1)
    /\ [][C3_Step]_vars

\* a submission was just answered AlreadySubmitted while the attempt is stored
C3_Witness ==
    \E q \in QuizIds, u \in QuizUsers :
        /\ quizResponse.kind = "submit"
        /\ quizResponse.quizId = q
        /\ quizResponse.userId = u
        /\ quizResponse.result = "AlreadySubmitted"
        /\ quizResponse.existedAtStart
        /\ Cardinality(FindAttempt(q, u)) = 1

\* this step is the successful end of a request of the given kind
Answered(kind, res) ==
    /\ quizResponse'.kind = kind
    /\ quizResponse'.result = res

\* while an attempt is stored its fields change only through a penalty, which
\* leaves its answers alone
C8_ChangeOnlyByPenalty(q, u) ==
    (/\ Len(AttemptsOf(q, u)) > 0
     /\ Len(AttemptsOf(q, u)') = Len(AttemptsOf(q, u))
     /\ AttemptsOf(q, u)' # AttemptsOf(q, u))
        => /\ Answered("penalty", "Penalized")
           /\ \A i \in DOMAIN AttemptsOf(q, u) :
                 AttemptsOf(q, u)'[i].answers = AttemptsOf(q, u)[i].answers

C8_OriginalStep ==
    \A q \in QuizIds, u \in QuizUsers :
        /\ <<q, u>> \in everAttempted
              => Len(AttemptsOf(q, u)') <= Len(AttemptsOf(q, u))
        /\ C8_ChangeOnlyByPenalty(q, u)

\* C8 as stated: for every (quiz, user) an attempt is created at most once (no
\* later submission by that user for that quiz ever succeeds), and after its
\* creation the attempt's score, answers and flag fields change only through
\* applyPenalty.
C8_CreatedAtMostOnce == [][C8_OriginalStep]_vars

C8_AmendedStep ==
    \A q \in QuizIds, u \in QuizUsers :
        /\ Len(AttemptsOf(q, u)') > Len(AttemptsOf(q, u))
              => /\ Len(AttemptsOf(q, u)) = 0
                 /\ Len(AttemptsOf(q, u)') = 1
                 /\ Answered("submit", "Submitted")
        /\ Len(AttemptsOf(q, u)') < Len(AttemptsOf(q, u))
              => /\ Len(AttemptsOf(q, u)') = 0
                 /\ Answered("delete", "Deleted")
        /\ C8_ChangeOnlyByPenalty(q, u)

\* C8, amended: for every (quiz, user), an attempt is created only by a
\* successful submission made while no attempt of that user for that quiz is
\* stored (the first one, or one after deleteQuizParticipant removed the
\* previous attempt); a stored attempt is removed only by
\* deleteQuizParticipant, and while it is stored its score, answers and flag
\* fields change only through applyPenalty.
C8_CreatedOnlyWhenNoneStored == [][C8_AmendedStep]_vars

\* a second attempt was just created: the stored attempt carries no penalty
\* although a penalty was applied to an attempt of the same (quiz, user)
C8_Witness ==
    \E q \in QuizIds, u \in QuizUsers :
        /\ <<q, u>> \in everAttempted
        /\ Len(AttemptsOf(q, u)) = 1
        /\ \A i \in DOMAIN AttemptsOf(q, u)[1].flagReason :
              AttemptsOf(q, u)[1].flagReason[i].rule # "PENALTY"
        /\ [to |-> u, template |-> "pointsReduced"] \in BagToSet(emails)
        /\ \A s \in Slots : quizCalls[s].kind # "penalty"
        /\ quizResponse.kind = "submit"
        /\ quizResponse.result = "Submitted"

----------------------------------------------------------------------------
(* Claims about the created registration, checked under Spec *)

\* the register call in slot s answers 201 in this step
RegisterSucceeds(s) ==
    /\ regCalls[s].kind = "register"
    /\ regCalls[s].pc # "done"
    /\ regCalls'[s].pc = "done"
    /\ regCalls'[s].result = "Created"

C11_Step ==
    /\ \A s \in Slots :
          RegisterSucceeds(s) =>
             LET e == regCalls[s].eventId
                 u == regCalls[s].userId
                 row == registrations'[Len(registrations')]
                 pending == events[e].requiresApproval
             IN  /\ Len(registrations') = Len(registrations) + 1
                 /\ SubSeq(registrations', 1, Len(registrations)) = registrations
                 /\ row.eventId = e
                 /\ row.userId = u
                 /\ row.status = IF pending THEN "PENDING" ELSE "REGISTERED"
                 /\ row.checkedInAt = NoTime
                 /\ row.reviewedBy = NULL
                 /\ row.reviewedAt = NoTime
                 /\ row.reviewComment = NULL
                 /\ \A i \in DOMAIN registrations : registrations[i].qrToken # row.qrToken
                 /\ \E n \in BagToSet(notifications') :
                       /\ n.userId = u
                       /\ n.title = IF pending THEN "Event Registration Pending"
                                               ELSE "Event Registration Confirmed"
                       /\ notifications' = notifications (+) SetToBag({n})
    /\ Len(registrations') > Len(registrations) => \E s \in Slots : RegisterSucceeds(s)

\* C11: every registration created by a successful register has status
\* PENDING if the event requires approval and REGISTERED otherwise, has no
\* check-in timestamp and no reviewer fields set, carries a check-in token
\* different from the token of every other registration, and is accompanied by
\* exactly one notification to the registering user.
C11_CreatedRegistration ==
    /\ [](\A i, j \in DOMAIN registrations :
             i # j => registrations[i].qrToken # registrations[j].qrToken)
    /\ [][C11_Step]_vars

\* a register call has just created a PENDING registration next to another
\* user's registration, after a call whose token was already in use failed
C11_Witness ==
    \E s, t \in Slots :
        /\ DoneRegister(s)
        /\ regCalls[s].result = "Created"
        /\ DoneRegister(t)
        /\ regCalls[t].result = ErrorHandler("P2002")
        /\ ~regCalls[t].insertRejected
        /\ Len(registrations) = 2
        /\ registrations[2].userId = regCalls[s].userId
        /\ registrations[2].status = "PENDING"

----------------------------------------------------------------------------
(* checkIn *)

\* prisma.registration.findFirst({ where: { eventId, qrToken } }): the
\* positions of the matching rows
FindByToken(e, qrToken) ==
    {i \in DOMAIN registrations :
        registrations[i].eventId = e /\ registrations[i].qrToken = qrToken}

\* the check `if (registration.checkedInAt)`
IsCheckedIn_off(row) == FALSE

IsCheckedIn(row) == row.checkedInAt # NoTime

\* lines 276-307: look the registration up by event and token; 404 when there
\* is none, 400 when it carries a check-in timestamp
CheckInFind(s, e, qrToken) ==
    /\ FreeSlot(s)
    /\ LET found == FindByToken(e, qrToken)
           id == CHOOSE i \in found : \A j \in found : i <= j
           c == [IdleCall EXCEPT !.kind = "checkIn", !.eventId = e, !.qrToken = qrToken,
                     !.existedAtStart = (found # {}),
                     !.checkedAtStart = (\E i \in found : registrations[i].checkedInAt # NoTime)]
       IN  regCalls' =
             [regCalls EXCEPT ![s] =
                IF found = {}
                THEN [c EXCEPT !.pc = "done", !.result = "NotFound"]
                ELSE IF IsCheckedIn(registrations[id])
                THEN [c EXCEPT !.pc = "done", !.result = "AlreadyCheckedIn"]
                ELSE [c EXCEPT !.pc = "update", !.regId = id]]
    /\ UnchangedTables

\* lines 309-320: write the check-in timestamp to the row found, answer 200
CheckInUpdate(s) ==
    /\ regCalls[s].kind = "checkIn"
    /\ regCalls[s].pc = "update"
    /\ registrations' = [registrations EXCEPT ![regCalls[s].regId].checkedInAt = now]
    /\ now' = now + 1
    /\ regCalls' = Finish(s, "CheckedIn")
    /\ UNCHANGED <<events, notifications, emails, auditLog, quizVars, mailing>>

----------------------------------------------------------------------------
(* Specification of check-in: one user registers for two open events and   *)
(* tokens are presented at the door of either                              *)

CheckInEvents == {"e1", "e2"}

CheckInUsers == {"u1"}

CheckInInit ==
    /\ events = [e \in CheckInEvents |->
                   [capacity |-> MaxCapacity, requiresApproval |-> FALSE,
                    eligibleLevels |-> {}, eligiblePrograms |-> {}]]
    /\ EmptyTables

CheckInNext ==
    \/ \E s \in Slots, e \in CheckInEvents, u \in CheckInUsers :
          RegisterFindEvent(s, e, u)
    \/ \E s \in Slots : RegisterFindExisting(s)
    \/ \E s \in Slots, t \in Uuidv4 : RegisterCreate(s, t)
    \/ \E s \in Slots, e \in CheckInEvents, t \in Uuidv4 : CheckInFind(s, e, t)
    \/ \E s \in Slots : CheckInUpdate(s)
    \/ \E s \in Slots : Respond(s)

CheckInSpec == CheckInInit /\ [][CheckInNext]_vars

----------------------------------------------------------------------------
(* Claims about check-in, checked under CheckInSpec *)

DoneCheckIn(s) == regCalls[s].kind = "checkIn" /\ regCalls[s].pc = "done"

\* the outcome of a checkIn call, from what the table held when it arrived
C12_Outcome(c) ==
    /\ c.result = "NotFound" <=> ~c.existedAtStart
    /\ c.result = "AlreadyCheckedIn" <=> c.existedAtStart /\ c.checkedAtStart
    /\ c.result = "CheckedIn" <=> c.existedAtStart /\ ~c.checkedAtStart

\* what the answer of a checkIn call does to the table
C12_Step ==
    \A s \in Slots :
        (/\ regCalls[s].pc # "done"
         /\ regCalls'[s].kind = "checkIn"
         /\ regCalls'[s].pc = "done")
        => IF regCalls'[s].result = "CheckedIn"
           THEN LET id == regCalls[s].regId
                IN  /\ registrations[id].eventId = regCalls[s].eventId
                    /\ registrations[id].qrToken = regCalls[s].qrToken
                    /\ registrations'[id].checkedInAt = now
                    /\ now # NoTime
                    /\ registrations' = [registrations EXCEPT ![id].checkedInAt = now]
           ELSE registrations' = registrations

\* C12: checkIn(event, token) returns NotFound when no registration of that
\* event carries the token (including when the token belongs to a registration
\* of another event), returns AlreadyCheckedIn and leaves the stored check-in
\* timestamp unchanged when the timestamp is already set, and otherwise sets
\* the timestamp; so of checkIn calls made one after the other for one
\* registration exactly the first succeeds.
C12_CheckInOutcomes ==
    /\ [](\A s \in Slots : DoneCheckIn(s) => C12_Outcome(regCalls[s]))
    /\ [][C12_Step]_vars

\* a token presented at the wrong event was refused, and a second
\* presentation at the right event was answered AlreadyCheckedIn
C12_Witness ==
    \E s, t \in Slots :
        /\ DoneCheckIn(s)
        /\ regCalls[s].result = "NotFound"
        /\ regCalls[s].qrToken \in TokensInUse
        /\ DoneCheckIn(t)
        /\ regCalls[t].result = "AlreadyCheckedIn"
        /\ \E i \in FindByToken(regCalls[t].eventId, regCalls[t].qrToken) :
              registrations[i].checkedInAt # NoTime

----------------------------------------------------------------------------
(* Specification of scoring and detection: one user submits any of a range *)
(* of answer sheets and integrity signals inside the quiz window, one      *)
(* request at a time, and staff reduce points afterwards                   *)

Ans(questionId, selectedOption, timeSpent) ==
    [questionId |-> questionId, selectedOption |-> selectedOption, timeSpent |-> timeSpent]

\* n right answers, to the two questions in turn, with the given times
RightAnswers(n, timeOf(_)) ==
    [i \in 1..n |-> IF i % 2 = 1 THEN Ans("k1", "a", timeOf(i)) ELSE Ans("k2", "b", timeOf(i))]

\* the answers arrays of the request bodies
AnswerSheets ==
    { CleanBody.answers,
      FastBody.answers,
      <<>>,
      <<Ans("k1", "a", 0), Ans("k2", "b", 30000)>>,
      <<Ans("k1", "a", 30000), Ans("k2", "b", 45000)>>,
      <<Ans("k1", "b", 0), Ans("k2", "a", 45000)>>,
      \* a time below zero, and a time on which the double product rounds down
      <<Ans("k1", "a", -30000)>>,
      <<Ans("k1", "a", 7710)>>,
      \* an option the question does not have, a question the quiz does not have
      <<Ans("k1", "z", 0), Ans("k9", "a", 0), Ans("k2", "b", 0)>>,
      <<Ans("k9", "a", 6000), Ans("k1", "a", 6000)>>,
      \* steady and alternating timings
      RightAnswers(10, LAMBDA i : 8000),
      RightAnswers(10, LAMBDA i : IF i % 2 = 1 THEN 500 ELSE 25000),
      RightAnswers(10, LAMBDA i : IF i <= 7 THEN 8000 ELSE 4000),
      RightAnswers(10, LAMBDA i : IF i <= 8 THEN 8000 ELSE 4000),
      RightAnswers(90, LAMBDA i : IF i <= 63 THEN 8000 ELSE 4000),
      RightAnswers(2, LAMBDA i : IF i = 1 THEN 13000 ELSE 7000),
      \* the thresholds of rules 2, 3 and 6
      RightAnswers(2, LAMBDA i : 2000),
      RightAnswers(2, LAMBDA i : IF i = 1 THEN 500 ELSE 3500),
      RightAnswers(3, LAMBDA i : 31000),
      RightAnswers(3, LAMBDA i : IF i <= 2 THEN 31000 ELSE 2000) }

\* the inactivityPeriods arrays (durations): none, one, two, three and four
\* periods longer than 15 seconds
InactivityLists ==
    { <<>>, <<16000>>, <<16000, 20000>>, <<16000, 16000, 15000, 16000>>,
      <<16000, 16000, 16000, 16000>> }

\* the integrity signals of a request body, around each threshold
SignalSets ==
    [tabSwitches : {3, 4},
     afkIncidents : {2, 3},
     inactivityPeriods : InactivityLists,
     screenshotAttempts : {0, 2, 3},
     detectedExtensions : {<<>>, <<"x">>}]

WithAnswers(signals, answers) ==
    [answers |-> answers,
     tabSwitches |-> signals.tabSwitches,
     afkIncidents |-> signals.afkIncidents,
     inactivityPeriods |-> signals.inactivityPeriods,
     screenshotAttempts |-> signals.screenshotAttempts,
     detectedExtensions |-> signals.detectedExtensions]

\* the request bodies: every sheet without signals and with all of them,
\* and every combination of signals on the honest and on the hurried sheet
ScoringBodies ==
    {WithAnswers(CleanBody, sheet) : sheet \in AnswerSheets}
    \cup {WithAnswers([tabSwitches |-> 4, afkIncidents |-> 3,
                       inactivityPeriods |-> <<16000, 16000, 16000, 16000>>,
                       screenshotAttempts |-> 3, detectedExtensions |-> <<"x">>],
                      sheet) : sheet \in AnswerSheets}
    \cup {WithAnswers(signals, sheet) :
             signals \in SignalSets, sheet \in {CleanBody.answers, FastBody.answers}}

\* no request of the quiz engine is in flight
Quiet == \A s \in Slots : quizCalls[s].kind = "idle"

ScoringInit ==
    /\ events = [e \in EventIds |->
                   [capacity |-> MaxCapacity, requiresApproval |-> FALSE,
                    eligibleLevels |-> {}, eligiblePrograms |-> {}]]
    /\ registrations = <<>>
    /\ notifications = EmptyBag
    /\ emails = EmptyBag
    /\ auditLog = EmptyBag
    /\ regCalls = [s \in Slots |-> IdleCall]
    /\ quizzes = [q \in QuizIds |-> TheQuiz]
    /\ now = TheQuiz.startAt
    /\ attempts = <<>>
    /\ quizCalls = [s \in Slots |-> IdleQuizCall]
    /\ quizResponse = NoResponse
    /\ everAttempted = {}
    /\ mailing = IdleMailing

ScoringNext ==
    \/ \E s \in Slots, q \in QuizIds, u \in QuizUsers, b \in ScoringBodies :
          Quiet /\ SubmitFindAttempt(s, q, u, b)
    \/ \E s \in Slots : SubmitLoadQuiz(s)
    \/ \E s \in Slots : SubmitCreate(s)
    \/ \E s \in Slots, q \in QuizIds, u \in QuizUsers,
          p \in PenaltyPoints, r \in PenaltyReasons :
          Quiet /\ PenaltyFind(s, q, u, p, r)
    \/ \E s \in Slots : PenaltyUpdate(s)

ScoringSpec == ScoringInit /\ [][ScoringNext]_vars

----------------------------------------------------------------------------
(* Claims about scoring, checked under ScoringSpec *)

\* the point value of the question a stored answer names
PointsOf(quiz, answer) ==
    quiz.questions[First(FindById(quiz.questions, answer.questionId))].points

\* C13: for every correct answer, every question point value and every
\* timeSpentMs value a client can submit, the time bonus factor lies in
\* [0.5, 1.0], so pointsEarned is at least half of and at most the full point
\* value of the question.
C13_BonusBetweenHalfAndFull ==
    \A i \in DOMAIN attempts :
        \A k \in DOMAIN attempts[i].answers :
            LET answer == attempts[i].answers[k]
                points == PointsOf(quizzes[attempts[i].quizId], answer)
            IN  answer.isCorrect
                   => /\ 2 * answer.pointsEarned >= points
                      /\ answer.pointsEarned <= points

\* round(points * (1 - min(t, limit) / limit * 0.5)) in exact arithmetic: the
\* integer nearest to points * (2 * limit - min(t, limit)) / (2 * limit)
C14_Formula(points, t, limitMs) ==
    LET m == IF t < limitMs THEN t ELSE limitMs
    IN  (points * (2 * limitMs - m) + limitMs) \div (2 * limitMs)

\* C14: pointsEarned for a correct answer equals
\* round(points * (1 - min(timeSpentMs, limitMs) / limitMs * 0.5)) with limitMs
\* the quiz time limit in seconds * 1000, and is 0 for an incorrect answer
\* whatever its time; for a 1000-point question and a 30 s limit, 0 ms scores
\* exactly 1000 and 30000 ms scores exactly 500.
C14_PointsFollowFormula ==
    /\ C14_Formula(1000, 0, 30 * 1000) = 1000
    /\ C14_Formula(1000, 30000, 30 * 1000) = 500
    /\ \A i \in DOMAIN attempts :
          \A k \in DOMAIN attempts[i].answers :
              LET answer == attempts[i].answers[k]
                  quiz == quizzes[attempts[i].quizId]
              IN  answer.pointsEarned =
                     IF answer.isCorrect
                     THEN C14_Formula(PointsOf(quiz, answer), answer.timeSpent,
                                      quiz.timeLimit * 1000)
                     ELSE 0

\* the ids of the questions of a quiz
QuestionIds(quiz) == {quiz.questions[i].id : i \in DOMAIN quiz.questions}

\* the option of the named question an answer selects, if the question has it
SelectedOptions(quiz, answer) ==
    LET question == quiz.questions[First(FindById(quiz.questions, answer.questionId))]
    IN  {question.options[i] : i \in FindById(question.options, answer.selectedOption)}

\* the submission in slot s stores its attempt in this step
SubmissionStored(s) ==
    /\ quizCalls[s].kind = "submit"
    /\ quizCalls[s].pc = "create"
    /\ quizCalls'[s].kind = "idle"
    /\ Len(attempts') = Len(attempts) + 1

C15_Step ==
    \A s \in Slots :
        /\ (quizCalls[s].kind = "submit" /\ quizCalls'[s] # quizCalls[s]
              /\ quizCalls[s].quizId \in DOMAIN quizzes /\ IsActive(quizzes[quizCalls[s].quizId])
              /\ FindAttempt(quizCalls[s].quizId, quizCalls[s].userId) = {})
             => \/ quizCalls'[s].pc = "create"
                \/ SubmissionStored(s) /\ Answered("submit", "Submitted")
        /\ SubmissionStored(s)
             => LET quiz == quizzes[quizCalls[s].quizId]
                    sent == quizCalls[s].body.answers
                    kept == SelectSeq(sent, LAMBDA a : a.questionId \in QuestionIds(quiz))
                    row == attempts'[Len(attempts')]
                IN  /\ Len(row.answers) = Len(kept)
                    /\ \A k \in DOMAIN kept :
                          LET stored == row.answers[k]
                              options == SelectedOptions(quiz, kept[k])
                          IN  /\ stored.questionId = kept[k].questionId
                              /\ stored.selectedOption = kept[k].selectedOption
                              /\ stored.timeSpent = kept[k].timeSpent
                              /\ options = {} => ~stored.isCorrect /\ stored.pointsEarned = 0
                              /\ \A o \in options :
                                    /\ stored.isCorrect = o.isCorrect
                                    /\ stored.pointsEarned =
                                          IF o.isCorrect
                                          THEN PointsEarned(PointsOf(quiz, kept[k]),
                                                            kept[k].timeSpent,
                                                            quiz.timeLimit * 1000)
                                          ELSE 0
                    /\ row.totalScore =
                          SumSeq([k \in DOMAIN row.answers |-> row.answers[k].pointsEarned])

\* C15: a submission in which some answers name an option id that does not
\* exist in the question, or a question id that is not in the quiz, is still
\* accepted: the attempt is created, those answers earn zero points (answers
\* with an unknown question id are dropped from the stored answers), the
\* remaining answers are scored normally, and totalScore equals the sum of
\* pointsEarned over the stored answers.
C15_MalformedAnswersEarnNothing == [][C15_Step]_vars

\* the sheet with an unknown option and an unknown question was stored: two
\* answers kept, the first without credit, the other with full credit
C15_Witness ==
    /\ quizResponse.kind = "submit"
    /\ quizResponse.result = "Submitted"
    /\ Len(attempts) = 1
    /\ Len(attempts[1].answers) = 2
    /\ attempts[1].answers[1].selectedOption = "z"
    /\ attempts[1].answers[1].pointsEarned = 0
    /\ attempts[1].answers[2].pointsEarned = 500
    /\ attempts[1].totalScore = 500

----------------------------------------------------------------------------
(* Claims about the quiz window, checked under QuizSpec *)

C16_Step ==
    /\ \A s \in Slots :
          (/\ quizCalls[s].kind = "submit"
           /\ quizCalls[s].pc = "loadQuiz"
           /\ quizCalls'[s] # quizCalls[s]
           /\ quizCalls[s].quizId \in DOMAIN quizzes)
          => LET quiz == quizzes[quizCalls[s].quizId]
             IN  /\ attempts' = attempts
                 /\ IF quiz.startAt <= now /\ now <= quiz.endAt
                    THEN quizCalls'[s].pc = "create"
                    ELSE /\ quizCalls'[s].kind = "idle"
                         /\ Answered("submit", "QuizNotActive")
    /\ Len(attempts') > Len(attempts)
          => \E s \in Slots : quizCalls[s].kind = "submit" /\ quizCalls[s].pc = "create"

\* C16: a submission is accepted only when the current time lies in the
\* closed window start <= now <= end of the quiz; at any other time it returns
\* QuizNotActive and creates no attempt row, so the same user can still submit
\* later inside the window.
C16_AcceptedOnlyInsideWindow == [][C16_Step]_vars

\* a submission made before the opening was refused, and a later one by the
\* same user, made inside the window, passed the window test
C16_Witness ==
    \E s \in Slots, q \in QuizIds :
        /\ quizResponse.kind = "submit"
        /\ quizResponse.result = "QuizNotActive"
        /\ quizResponse.quizId = q
        /\ now = quizzes[q].startAt
        /\ quizCalls[s].kind = "submit"
        /\ quizCalls[s].pc = "create"
        /\ quizCalls[s].quizId = q
        /\ quizCalls[s].userId = quizResponse.userId
        /\ attempts = <<>>

----------------------------------------------------------------------------
(* Claims about the integrity evaluation, checked under ScoringSpec *)

\* how many elements of a sequence of numbers satisfy a test
HowMany(seq, Test(_)) == Cardinality({i \in DOMAIN seq : Test(seq[i])})

\* the nine conditions of the integrity evaluation, as the specification
\* words them, on a request body
C17_Conditions(body) ==
    LET times == Times(body.answers)
        n == Len(times)
    IN  << body.tabSwitches > 3,
           n > 0 /\ SumSeq(times) < 2000 * n,
           2 * HowMany(times, LAMBDA t : t < 1000) > n,
           body.afkIncidents > 2,
           PhonePattern(body.answers),
           HowMany(times, LAMBDA t : t > 30000) > 2,
           HowMany(body.inactivityPeriods, LAMBDA d : d > 15000) > 3,
           body.screenshotAttempts > 2,
           body.detectedExtensions # <<>> >>

C17_Step ==
    \A s \in Slots :
        SubmissionStored(s)
           => LET conditions == C17_Conditions(quizCalls[s].body)
              IN  attempts'[Len(attempts')].isFlagged
                     <=> \E r \in DOMAIN conditions : conditions[r]

\* C17: the isFlagged bit of a created attempt is true exactly when at least
\* one of these holds, each evaluated independently of the others:
\* tabSwitches > 3; mean timeSpentMs < 2000; more than 50% of answers with
\* timeSpentMs < 1000; afkIncidents > 2; the rule-5 phone-use pattern; more
\* than 2 answers with timeSpentMs > 30000; more than 3 inactivity periods
\* longer than 15000 ms; screenshotAttempts > 2; detectedExtensions non-empty.
C17_FlaggedIffSomeRule == [][C17_Step]_vars

\* an attempt flagged by one condition alone: three answers of more than 30
\* seconds and no other signal
C17_Witness ==
    /\ Len(attempts) = 1
    /\ attempts[1].isFlagged
    /\ Len(attempts[1].flagReason) = 1
    /\ attempts[1].flagReason[1].rule = "overThirtySeconds"
    /\ attempts[1].tabSwitches = 0

\* which of the nine heuristics report on a request body: the conditions that
\* flag, except that long inactivity reports from 2 periods on and screenshot
\* attempts from 1 on
C18_Reports(body) ==
    LET flags == C17_Conditions(body)
    IN  [flags EXCEPT
           ![7] = HowMany(body.inactivityPeriods, LAMBDA d : d > 15000) > 1,
           ![8] = body.screenshotAttempts > 0]

RuleNames ==
    << "tabSwitches", "answeredTooFast", "underOneSecond", "afkIncidents",
       "externalDevice", "overThirtySeconds", "inactivity", "screenshots", "extensions" >>

\* the names of the rules that report, in the order of the rules
RECURSIVE C18_Reported(_, _)
C18_Reported(reports, n) ==
    IF n = 0 THEN <<>>
    ELSE IF reports[n]
         THEN Append(C18_Reported(reports, n - 1), RuleNames[n])
         ELSE C18_Reported(reports, n - 1)

C18_Step ==
    \A s \in Slots :
        SubmissionStored(s)
           => LET reports == C18_Reports(quizCalls[s].body)
                  row == attempts'[Len(attempts')]
              IN  /\ row.flagReason = <<>> <=> \A r \in DOMAIN reports : ~reports[r]
                  /\ [i \in DOMAIN row.flagReason |-> row.flagReason[i].rule]
                        = C18_Reported(reports, Len(reports))

C18_State ==
    \A i \in DOMAIN attempts :
        LET row == attempts[i]
        IN  /\ row.isFlagged => row.flagReason # <<>>
            /\ row.flagReason # <<>> /\ ~row.isFlagged
                  => \A k \in DOMAIN row.flagReason :
                        \/ /\ row.flagReason[k].rule = "inactivity"
                           /\ row.flagReason[k].n \in {2, 3}
                        \/ /\ row.flagReason[k].rule = "screenshots"
                           /\ row.flagReason[k].n \in {1, 2}

\* C18: for every attempt, flagReason is null exactly when no heuristic
\* reported and otherwise lists every rule that reported, not only the first;
\* in every reachable state (after submissions and penalties) isFlagged implies
\* flagReason is non-null, and an attempt has a non-null reason while not
\* flagged only when its sole reports are rule 7 with 2 or 3 long inactivity
\* periods and/or rule 8 with 1 or 2 screenshot attempts.
C18_ReasonListsEveryReport == []C18_State /\ [][C18_Step]_vars

\* an attempt that is not flagged and carries two reasons: three long
\* inactivity periods and two screenshot attempts
C18_Witness ==
    /\ Len(attempts) = 1
    /\ ~attempts[1].isFlagged
    /\ Len(attempts[1].flagReason) = 2
    /\ attempts[1].flagReason[1] = Reason("inactivity", 3)
    /\ attempts[1].flagReason[2] = Reason("screenshots", 2)

\* rule 5 as the specification words it: more than 70% of the answers take
\* 5000 to 20000 ms, the coefficient of variation of the times is below 0.3
\* and their mean exceeds 5000 ms
C19_Rule5(times) ==
    LET n == Len(times)
    IN  /\ n > 0
        /\ 10 * HowMany(times, LAMBDA t : t >= 5000 /\ t <= 20000) > 7 * n
        /\ SumSeq(times) > 5000 * n
        /\ LowVariation(times)

C19_Step ==
    \A s \in Slots :
        SubmissionStored(s)
           => LET row == attempts'[Len(attempts')]
                  fires == \E k \in DOMAIN row.flagReason :
                              row.flagReason[k].rule = "externalDevice"
              IN  /\ fires <=> C19_Rule5(Times(quizCalls[s].body.answers))
                  /\ fires => row.isFlagged

\* C19: flag rule 5 fires exactly when more than 70% of the answers have
\* timeSpentMs in [5000, 20000], the coefficient of variation of timeSpentMs
\* (population standard deviation / mean) is below 0.3 and the mean exceeds
\* 5000 ms: ten answers of 8000 ms each give isFlagged = true with a reason
\* mentioning external device usage, and ten answers alternating 500 ms and
\* 25000 ms do not trigger rule 5.
C19_Rule5FiresExactly ==
    /\ C19_Rule5([i \in 1..10 |-> 8000])
    /\ ~C19_Rule5([i \in 1..10 |-> IF i % 2 = 1 THEN 500 ELSE 25000])
    /\ [][C19_Step]_vars

----------------------------------------------------------------------------
(* The leaderboard of a quiz (quiz.controller.ts, getQuizLeaderboard) and  *)
(* the rank a submission reports                                           *)

\* line 502: take: 50
LeaderboardTake == 50

\* lines 483-503: prisma.quizAttempt.findMany({ where: { quizId }, orderBy:
\* { totalScore: 'desc' } }): the positions of the attempts of quiz q in an
\* order the store may return them in.  Only the score is a sort key, so rows
\* of equal score come in whatever order the store produces.
FindManyByScore(q) ==
    LET rows == {i \in DOMAIN attempts : attempts[i].quizId = q}
        n    == Cardinality(rows)
    IN  {p \in [1..n -> rows] :
            /\ \A i, j \in 1..n : i # j => p[i] # p[j]
            /\ \A i, j \in 1..n :
                  i < j => attempts[p[i]].totalScore >= attempts[p[j]].totalScore}

\* lines 506-528: attempts.map((attempt, index) => ({ ..., rank: index + 1 }))
\* over the first LeaderboardTake rows
LeaderboardData(order) ==
    [k \in 1..Min(LeaderboardTake, Len(order)) |->
        [userId     |-> attempts[order[k]].userId,
         totalScore |-> attempts[order[k]].totalScore,
         isFlagged  |-> attempts[order[k]].isFlagged,
         rank       |-> k]]

\* lines 480-534: a read; it answers with the rows in the order the store
\* returned them (a quiz that does not exist has an empty leaderboard)
GetQuizLeaderboard(q, order) ==
    /\ order \in FindManyByScore(q)
    /\ quizResponse' = [NoResponse EXCEPT !.kind = "leaderboard", !.quizId = q,
                                          !.result = "Ok",
                                          !.data = LeaderboardData(order)]
    /\ UNCHANGED <<regVars, mailing, now, quizzes, attempts, quizCalls, everAttempted>>

\* three participants of one quiz whose questions are worth 300 and 100
\* points; a sheet answers one of them correctly at once, so an attempt
\* scores 300 or 100
RankUsers == {"u1", "u2", "u3"}

RankQuiz ==
    [TheQuiz EXCEPT !.questions = <<
        [id |-> "k1", points |-> 300,
         options |-> <<[id |-> "a", isCorrect |-> TRUE], [id |-> "b", isCorrect |-> FALSE]>>],
        [id |-> "k2", points |-> 100,
         options |-> <<[id |-> "a", isCorrect |-> FALSE], [id |-> "b", isCorrect |-> TRUE]>>] >>]

RankBodies ==
    {WithAnswers(CleanBody, <<Ans("k1", "a", 0)>>),
     WithAnswers(CleanBody, <<Ans("k2", "b", 0)>>)}

RankInit ==
    /\ events = [e \in EventIds |->
                   [capacity |-> MaxCapacity, requiresApproval |-> FALSE,
                    eligibleLevels |-> {}, eligiblePrograms |-> {}]]
    /\ registrations = <<>>
    /\ notifications = EmptyBag
    /\ emails = EmptyBag
    /\ auditLog = EmptyBag
    /\ regCalls = [s \in Slots |-> IdleCall]
    /\ quizzes = [q \in QuizIds |-> RankQuiz]
    /\ now = RankQuiz.startAt
    /\ attempts = <<>>
    /\ quizCalls = [s \in Slots |-> IdleQuizCall]
    /\ quizResponse = NoResponse
    /\ everAttempted = {}
    /\ mailing = IdleMailing

RankNext ==
    \/ \E s \in Slots, q \in QuizIds, u \in RankUsers, b \in RankBodies :
          SubmitFindAttempt(s, q, u, b)
    \/ \E s \in Slots : SubmitLoadQuiz(s)
    \/ \E s \in Slots : SubmitCreate(s)
    \/ \E q \in QuizIds \cup {MissingQuiz} :
          \E order \in FindManyByScore(q) : GetQuizLeaderboard(q, order)

RankSpec == RankInit /\ [][RankNext]_vars

\* the place of row i among the rows of its quiz when they are ordered by
\* score, highest first, and rows of equal score by submission, earliest
\* first (the table keeps its rows in the order they were inserted)
C20_Place(rows, i) ==
    1 + Cardinality({j \in DOMAIN rows :
                        /\ rows[j].quizId = rows[i].quizId
                        /\ \/ rows[j].totalScore > rows[i].totalScore
                           \/ /\ rows[j].totalScore = rows[i].totalScore
                              /\ j < i})

\* a stored submission reports the place of its attempt
C20_SubmitStep ==
    \A s \in Slots :
        SubmissionStored(s)
            => quizResponse'.rank = C20_Place(attempts', Len(attempts'))

\* a leaderboard lists every attempt of the quiz at its place
C20_LeaderboardStep ==
    \A q \in QuizIds : \A order \in FindManyByScore(q) :
        GetQuizLeaderboard(q, order)
            => \A k \in DOMAIN quizResponse'.data :
                  \E i \in DOMAIN attempts :
                      /\ attempts[i].quizId = q
                      /\ attempts[i].userId = quizResponse'.data[k].userId
                      /\ C20_Place(attempts, i) = k
                      /\ quizResponse'.data[k].rank = k

\* C20: the ranks reported for a quiz are positional and deterministic:
\* attempts of equal score are ranked by earliest submission (scores 300, 300,
\* 100 get ranks 1, 2, 3), both in the rank a submission reports and in the
\* leaderboard of the quiz, so two reads of the same attempts agree
C20_RanksPositional == [][C20_SubmitStep /\ C20_LeaderboardStep]_vars

C20_SubmitRanksPositional == [][C20_SubmitStep]_vars

C20_LeaderboardPositional == [][C20_LeaderboardStep]_vars

\* attempts scoring 300, 300 and 100 are stored, in that order of submission
C20_ThreeAttempts ==
    /\ Len(attempts) = 3
    /\ attempts[1].totalScore = 300
    /\ attempts[2].totalScore = 300
    /\ attempts[3].totalScore = 100

\* the same, and a leaderboard has been read that ranks the later of the two
\* leading attempts first
C20_LaterAttemptFirst ==
    /\ C20_ThreeAttempts
    /\ quizResponse.kind = "leaderboard"
    /\ Len(quizResponse.data) = 3
    /\ quizResponse.data[1].userId = attempts[2].userId

----------------------------------------------------------------------------
(* The monthly leaderboard (quiz.controller.ts, getMonthlyLeaderboard).    *)
(* Time is counted in instants; a day has TicksPerDay of them, the first   *)
(* one being its midnight, and a month has DaysPerMonth days.  Instant 1   *)
(* is the midnight of the first day of a month.                            *)

TicksPerDay == 2
DaysPerMonth == 2
TicksPerMonth == TicksPerDay * DaysPerMonth

\* the instants the calendar of this specification runs through
MonthHorizon == 6

\* line 644: new Date(now.getFullYear(), now.getMonth(), 1): the midnight of
\* the first day of the month of t
StartOfMonth(t) == TicksPerMonth * ((t - 1) \div TicksPerMonth) + 1

\* line 645: new Date(now.getFullYear(), now.getMonth() + 1, 0): day 0 of the
\* next month, which is the midnight of the last day of the month of t
EndOfMonth(t) == StartOfMonth(t) + TicksPerMonth - TicksPerDay

\* lines 648-665: prisma.quizAttempt.findMany({ where: { completedAt: { gte:
\* startOfMonth, lte: endOfMonth } } }): the positions of the rows found
FindManyOfMonth ==
    {i \in DOMAIN attempts :
        /\ attempts[i].completedAt >= StartOfMonth(now)
        /\ attempts[i].completedAt <= EndOfMonth(now)}

\* the rows found, in an order the store may return them in (the query has
\* no orderBy)
MonthlyOrders ==
    LET rows == FindManyOfMonth
        n    == Cardinality(rows)
    IN  {p \in [1..n -> rows] : \A i, j \in 1..n : i # j => p[i] # p[j]}

\* lines 668-687: attempts.reduce(...): one entry per user, in the order the
\* users first appear among the rows
UserScores(order) ==
    LET found == {attempts[order[k]].userId : k \in DOMAIN order}
    IN  [u \in found |->
           LET mine == {k \in DOMAIN order : attempts[order[k]].userId = u}
               scores == [k \in DOMAIN order |->
                            IF k \in mine THEN attempts[order[k]].totalScore ELSE 0]
           IN  [userId     |-> u,
                totalScore |-> SumSeq(scores),
                quizCount  |-> Cardinality(mine),
                hasPenalty |-> \E k \in mine :
                                  \E r \in DOMAIN attempts[order[k]].flagReason :
                                      attempts[order[k]].flagReason[r].rule = "PENALTY",
                first      |-> First(mine)]]

\* lines 690-696: Object.values(userScores).sort((a, b) => b.totalScore -
\* a.totalScore).slice(0, 50).map((entry, index) => ({ ...entry, rank: index
\* + 1 })); the sort is stable, so users of equal score keep the order of
\* their first rows
MonthlyData(order) ==
    LET scores == UserScores(order)
        found  == DOMAIN scores
        Place(u) == 1 + Cardinality({v \in found :
                           \/ scores[v].totalScore > scores[u].totalScore
                           \/ /\ scores[v].totalScore = scores[u].totalScore
                              /\ scores[v].first < scores[u].first})
    IN  [k \in 1..Min(LeaderboardTake, Cardinality(found)) |->
           LET u == CHOOSE v \in found : Place(v) = k
           IN  [userId     |-> u,
                totalScore |-> scores[u].totalScore,
                quizCount  |-> scores[u].quizCount,
                hasPenalty |-> scores[u].hasPenalty,
                rank       |-> k]]

\* lines 641-703: a read of the attempts of the current month
GetMonthlyLeaderboard(order) ==
    /\ order \in MonthlyOrders
    /\ quizResponse' = [NoResponse EXCEPT !.kind = "monthly", !.result = "Ok",
                                          !.data = MonthlyData(order)]
    /\ UNCHANGED <<regVars, mailing, now, quizzes, attempts, quizCalls, everAttempted>>

\* time passes, through the end of one month into the next
MonthTick ==
    /\ now < MonthHorizon
    /\ now' = now + 1
    /\ UNCHANGED <<regVars, quizVars, mailing>>

\* two participants and two quizzes that are open all the time, the second
\* with questions of fewer points; every participant hands in the same sheet
MonthUsers == {"u1", "u2"}
MonthQuizIds == {"q1", "q2"}
MonthQuiz(q) ==
    [(IF q = "q1" THEN TheQuiz ELSE RankQuiz) EXCEPT !.startAt = 1, !.endAt = MonthHorizon]
MonthBodies == {CleanBody}

MonthInit ==
    /\ events = [e \in EventIds |->
                   [capacity |-> MaxCapacity, requiresApproval |-> FALSE,
                    eligibleLevels |-> {}, eligiblePrograms |-> {}]]
    /\ registrations = <<>>
    /\ notifications = EmptyBag
    /\ emails = EmptyBag
    /\ auditLog = EmptyBag
    /\ regCalls = [s \in Slots |-> IdleCall]
    /\ quizzes = [q \in MonthQuizIds |-> MonthQuiz(q)]
    /\ now = 1
    /\ attempts = <<>>
    /\ quizCalls = [s \in Slots |-> IdleQuizCall]
    /\ quizResponse = NoResponse
    /\ everAttempted = {}
    /\ mailing = IdleMailing

MonthNext ==
    \/ \E s \in Slots, q \in MonthQuizIds, u \in MonthUsers, b \in MonthBodies :
          Quiet /\ SubmitFindAttempt(s, q, u, b)
    \/ \E s \in Slots : SubmitLoadQuiz(s)
    \/ \E s \in Slots : SubmitCreate(s)
    \/ \E order \in MonthlyOrders : GetMonthlyLeaderboard(order)
    \/ MonthTick

MonthSpec == MonthInit /\ [][MonthNext]_vars

\* the last instant of the month of t
C21_LastOfMonth(t) == StartOfMonth(t) + TicksPerMonth - 1

\* the attempts of user u completed in the month of now
C21_InMonth(u) ==
    {i \in DOMAIN attempts :
        /\ attempts[i].userId = u
        /\ attempts[i].completedAt >= StartOfMonth(now)
        /\ attempts[i].completedAt <= C21_LastOfMonth(now)}

C21_Sum(u) ==
    SumSeq([i \in DOMAIN attempts |->
              IF i \in C21_InMonth(u) THEN attempts[i].totalScore ELSE 0])

\* the response is a monthly leaderboard read in this state: a read leaves
\* the attempts and the time as they are, and every other step replaces the
\* response or leaves the month's attempts unchanged until it does
C21_Step ==
    \A order \in MonthlyOrders :
        GetMonthlyLeaderboard(order)
            => LET data == quizResponse'.data
                   k    == Len(data)
               IN  /\ k <= LeaderboardTake
                   /\ \A u \in MonthUsers :
                         C21_InMonth(u) # {}
                            => \E i \in 1..k : /\ data[i].userId = u
                                               /\ data[i].totalScore = C21_Sum(u)
                                               /\ \A j \in 1..k :
                                                     data[j].userId = u => j = i
                   /\ \A i \in 1..k : /\ data[i].rank = i
                                      /\ C21_InMonth(data[i].userId) # {}
                   /\ \A i, j \in 1..k :
                         i < j => data[i].totalScore >= data[j].totalScore

\* C21: the monthly leaderboard has, for each user with an attempt completed
\* in the current calendar month (first instant to last), one entry whose
\* totalScore is the sum of the user's attempts of the month; the entries are
\* in non-increasing score order with ranks 1..k by position, k at most 50
C21_MonthlyLeaderboard == [][C21_Step]_vars

\* the same with the month ending where the query ends it, at the midnight
\* of its last day
C21_OrderAndRanks ==
    [][\A order \in MonthlyOrders :
          GetMonthlyLeaderboard(order)
             => LET data == quizResponse'.data
                IN  /\ \A i \in DOMAIN data : data[i].rank = i
                    /\ \A i, j \in DOMAIN data :
                          i < j => data[i].totalScore >= data[j].totalScore
                    /\ \A i, j \in DOMAIN data :
                          data[i].userId = data[j].userId => i = j]_vars

\* a leaderboard read on the last day of a month after an attempt of that day
C21_LastDayAttempt ==
    /\ quizResponse.kind = "monthly"
    /\ \E i \in DOMAIN attempts :
          /\ attempts[i].completedAt > EndOfMonth(now)
          /\ attempts[i].completedAt <= C21_LastOfMonth(now)

----------------------------------------------------------------------------
(* Specification of penalties: one participant submits to the quiz and     *)
(* staff reduce the points of the attempt, by requests that may overlap    *)

\* pointsToReduce of the requests: negative, zero or missing, smaller than
\* the score of an attempt, and greater than it
PenaltyAmounts == {-50, 0, 100, 1000}

PenaltyInit == ScoringInit

PenaltyNext ==
    \/ \E s \in Slots, q \in QuizIds, u \in QuizUsers, b \in SubmitBodies :
          SubmitFindAttempt(s, q, u, b)
    \/ \E s \in Slots : SubmitLoadQuiz(s)
    \/ \E s \in Slots : SubmitCreate(s)
    \/ \E s \in Slots, q \in QuizIds, u \in QuizUsers,
          p \in PenaltyAmounts, r \in PenaltyReasons :
          PenaltyFind(s, q, u, p, r)
    \/ \E s \in Slots : PenaltyUpdate(s)

PenaltySpec == PenaltyInit /\ [][PenaltyNext]_vars

\* the request in slot s writes its penalty in this step
PenaltyApplied(s) ==
    /\ quizCalls[s].kind = "penalty"
    /\ quizCalls[s].pc = "update"
    /\ quizCalls'[s].kind = "idle"
    /\ quizResponse'.result = "Penalized"

\* a penalty that is applied sets the score of the attempt to max(0, old
\* score - p), the old score being the one the request read, and flags it
C22_AppliedStep ==
    \A s \in Slots :
        PenaltyApplied(s)
            => \A i \in FindAttempt(quizCalls[s].quizId, quizCalls[s].userId) :
                  /\ quizCalls[s].points > 0
                  /\ attempts'[i].totalScore
                        = Max(0, quizCalls[s].oldScore - quizCalls[s].points)
                  /\ attempts'[i].isFlagged

\* a request with p <= 0 answers InvalidInput and changes nothing
C22_InvalidStep ==
    \A s \in Slots, q \in QuizIds, u \in QuizUsers,
       p \in PenaltyAmounts, r \in PenaltyReasons :
        (p <= 0 /\ PenaltyFind(s, q, u, p, r))
            => /\ quizResponse'.kind = "penalty"
               /\ quizResponse'.result = "InvalidInput"
               /\ attempts' = attempts
               /\ emails' = emails
               /\ quizCalls' = quizCalls

\* the score of an attempt is never negative
C22_NeverNegative == \A i \in DOMAIN attempts : attempts[i].totalScore >= 0

\* the score of an attempt never increases
C22_NeverIncreases ==
    \A i \in DOMAIN attempts :
        i \in DOMAIN attempts' => attempts'[i].totalScore <= attempts[i].totalScore

\* C22: applyPenalty with pointsToReduce = p > 0 sets the attempt's totalScore
\* to max(0, old score - p) and flags it, p <= 0 or missing answers
\* InvalidInput and changes nothing; so, through submissions and penalties, an
\* attempt's totalScore is never negative and never increases
C22_PenaltyLowersScore ==
    /\ []C22_NeverNegative
    /\ [][C22_AppliedStep /\ C22_InvalidStep /\ C22_NeverIncreases]_vars

C22_Invalid == [][C22_InvalidStep]_vars

C22_Applied == [][C22_AppliedStep]_vars

C22_Monotonic == [][C22_NeverIncreases]_vars

\* the annotation a penalty request leaves in flagReason
C23_Annotation(call) == [rule |-> "PENALTY", n |-> call.points, note |-> call.reason]

\* a penalty that is applied appends its annotation to the flagReason the
\* attempt has, and takes its points from the score the attempt has
C23_Step ==
    \A s \in Slots :
        PenaltyApplied(s)
            => \A i \in FindAttempt(quizCalls[s].quizId, quizCalls[s].userId) :
                  /\ attempts'[i].flagReason
                        = attempts[i].flagReason \o <<C23_Annotation(quizCalls[s])>>
                  /\ attempts'[i].totalScore
                        = Max(0, attempts[i].totalScore - quizCalls[s].points)

\* C23: every successful applyPenalty leaves its own annotation in flagReason,
\* appended to and never overwriting earlier text, and its reduction in the
\* score, also when two calls on the same attempt interleave: then both
\* annotations are present and the score is max(0, original - p1 - p2)
C23_EveryPenaltyLeavesItsMark == [][C23_Step]_vars

\* two penalties were applied to an attempt that carries one annotation only
C23_LostAnnotation ==
    \E i \in DOMAIN attempts :
        /\ CopiesIn([to |-> attempts[i].userId, template |-> "pointsReduced"], emails) = 2
        /\ Cardinality({k \in DOMAIN attempts[i].flagReason :
                           attempts[i].flagReason[k].rule = "PENALTY"}) = 1

----------------------------------------------------------------------------
(* Specification of a registration's life: one user registers for an event *)
(* that requires approval, reviewers approve and reject, and tokens are    *)
(* presented at the door                                                   *)

LifeInit ==
    /\ events = [e \in EventIds |->
                   [capacity |-> MaxCapacity, requiresApproval |-> TRUE,
                    eligibleLevels |-> {}, eligiblePrograms |-> {}]]
    /\ EmptyTables

LifeNext ==
    \/ \E s \in Slots, e \in EventIds, u \in ReviewUsers :
          RegisterFindEvent(s, e, u)
    \/ \E s \in Slots : RegisterFindExisting(s)
    \/ \E s \in Slots, t \in Uuidv4 : RegisterCreate(s, t)
    \/ \E s \in Slots, kind \in {"approve", "reject"},
          id \in 0..Len(registrations), r \in Reviewers, c \in Comments :
          ReviewFind(s, kind, id, r, c)
    \/ \E s \in Slots : ApproveUpdate(s)
    \/ \E s \in Slots : RejectUpdate(s)
    \/ \E s \in Slots, e \in EventIds, t \in Uuidv4 : CheckInFind(s, e, t)
    \/ \E s \in Slots : CheckInUpdate(s)
    \/ \E s \in Slots : Respond(s)

LifeSpec == LifeInit /\ [][LifeNext]_vars

\* a registration whose status is REJECTED or CANCELLED keeps all its fields
C24_Step ==
    \A i \in DOMAIN registrations :
        (registrations[i].status \in {"REJECTED", "CANCELLED"} /\ i \in DOMAIN registrations')
            => registrations'[i] = registrations[i]

\* C24: once a registration's status is REJECTED or CANCELLED, no operation
\* other than deletion (approve, reject, register, checkIn) changes any of its
\* fields, its check-in timestamp included
C24_TerminalIsFrozen == [][C24_Step]_vars

\* the same for the check-in timestamp alone
C24_CheckInFrozen ==
    [][\A i \in DOMAIN registrations :
          (registrations[i].status \in {"REJECTED", "CANCELLED"} /\ i \in DOMAIN registrations')
             => registrations'[i].checkedInAt = registrations[i].checkedInAt]_vars

\* the same for a registration that no request in flight has read
C24_FrozenWhenQuiet ==
    [][(\A s \in Slots : regCalls[s].kind \notin {"approve", "reject"})
          => \A i \in DOMAIN registrations :
                (registrations[i].status \in {"REJECTED", "CANCELLED"}
                 /\ i \in DOMAIN registrations')
                    => registrations'[i].status = registrations[i].status]_vars

\* a rejected registration that is checked in
C24_RejectedCheckedIn ==
    \E i \in DOMAIN registrations :
        /\ registrations[i].status = "REJECTED"
        /\ registrations[i].checkedInAt # NoTime

----------------------------------------------------------------------------
(* Messaging (messaging.controller.ts, sendMessageToUsers): one request    *)
(* mails the recipients it finds, batch after batch.  The recipients are   *)
(* numbered in the order the store returns them; sends[k] tells how far    *)
(* the send to recipient k is.                                             *)

\* the greatest number of recipients a request finds
MaxRecipients == 12

\* line 178: batchSize: number = 10
BatchSize == 10

\* line 182: recipients.slice(i, i + batchSize), for a list of n recipients
Batch(i, n) == {k \in 1..n : k > i /\ k <= i + BatchSize}

\* email.service.ts lines 23-48: does sendEmail throw when the transport
\* delivers, or fails to deliver, the message?  It catches the failure and
\* returns false.
SendEmailThrows_onFailure(delivered) == ~delivered

SendEmailThrows(delivered) == FALSE

\* line 263: await Promise.all(batchPromises): every send of the batch that
\* starts after position i has settled
BatchSettled_off(i) == TRUE

BatchSettled(i) ==
    \A k \in Batch(i, mailing.n) : mailing.sends[k] \in {"sent", "failed"}

\* lines 184-261: batch.map(async (recipient) => ...): every send of the
\* batch after position i is handed to sendEmail
StartBatch(m, i) ==
    [m EXCEPT !.pc = "batch", !.i = i, !.batches = @ + 1,
              !.sends = [k \in DOMAIN m.sends |->
                           IF k \in Batch(i, m.n) THEN "inFlight" ELSE m.sends[k]]]

MailsOfBatch(i, n) == SetToBag({[to |-> k, template |-> "message"] : k \in Batch(i, n)})

\* a response of the request
MailResponse(m, res) ==
    [m EXCEPT !.pc = "done",
              !.response = [result |-> res, successCount |-> m.successCount,
                            failureCount |-> m.failureCount]]

\* lines 73-82 and 155-160: the request arrives; 400 without subject or
\* message and 400 for an unknown recipient type, otherwise the recipients
\* are looked up
SendMessageToUsers(hasText, knownType) ==
    /\ mailing.pc = "idle"
    /\ mailing' = IF hasText /\ knownType
                  THEN [mailing EXCEPT !.pc = "recipients"]
                  ELSE MailResponse(mailing, "InvalidInput")
    /\ UNCHANGED <<regVars, now, quizVars>>

\* lines 87-182: the store returns n recipients; 400 when there is none,
\* otherwise the first batch starts
MessageFindRecipients(n) ==
    /\ mailing.pc = "recipients"
    /\ IF n = 0
       THEN /\ mailing' = MailResponse(mailing, "NoRecipients")
            /\ UNCHANGED emails
       ELSE /\ mailing' = StartBatch([mailing EXCEPT !.n = n,
                                        !.sends = [k \in 1..n |-> "waiting"]], 0)
            /\ emails' = emails (+) MailsOfBatch(0, n)
    /\ UNCHANGED <<events, registrations, notifications, auditLog, regCalls,
                   now, quizVars>>

\* lines 238-260: the send to recipient k settles, delivered or not, and is
\* counted
SendSettles(k, delivered) ==
    /\ mailing.pc = "batch"
    /\ k \in DOMAIN mailing.sends
    /\ mailing.sends[k] = "inFlight"
    /\ mailing' = [mailing EXCEPT
          !.sends[k] = IF delivered THEN "sent" ELSE "failed",
          !.successCount = IF SendEmailThrows(delivered) THEN @ ELSE @ + 1,
          !.failureCount = IF SendEmailThrows(delivered) THEN @ + 1 ELSE @]
    /\ UNCHANGED <<regVars, now, quizVars>>

\* lines 263-268: the batch has settled; wait before the next batch unless
\* this was the last one
BatchEnds ==
    /\ mailing.pc = "batch"
    /\ BatchSettled(mailing.i)
    /\ mailing' = [mailing EXCEPT
          !.pc = IF mailing.i + BatchSize < mailing.n THEN "delay" ELSE "audit"]
    /\ UNCHANGED <<regVars, now, quizVars>>

\* lines 181 and 266-268: the delay is over, the next batch starts
DelayEnds ==
    /\ mailing.pc = "delay"
    /\ mailing' = StartBatch(mailing, mailing.i + BatchSize)
    /\ emails' = emails (+) MailsOfBatch(mailing.i + BatchSize, mailing.n)
    /\ UNCHANGED <<events, registrations, notifications, auditLog, regCalls,
                   now, quizVars>>

\* lines 274-306: write the audit log entry and answer with the counts
MessageAudit ==
    /\ mailing.pc = "audit"
    /\ auditLog' = auditLog (+) SetToBag({
          [action |-> "SEND_MESSAGE", entityId |-> "BULK_EMAIL",
           recipientCount |-> mailing.n,
           successCount |-> mailing.successCount,
           failureCount |-> mailing.failureCount]})
    /\ mailing' = MailResponse(mailing, "Ok")
    /\ UNCHANGED <<events, registrations, notifications, emails, regCalls,
                   now, quizVars>>

MessagingInit == ScoringInit

\* the steps of a request that has been received
MessagingSteps ==
    \/ \E n \in 0..MaxRecipients : MessageFindRecipients(n)
    \/ \E k \in 1..MaxRecipients, delivered \in BOOLEAN : SendSettles(k, delivered)
    \/ BatchEnds
    \/ DelayEnds
    \/ MessageAudit

MessagingNext ==
    \/ \E hasText \in BOOLEAN, knownType \in BOOLEAN : SendMessageToUsers(hasText, knownType)
    \/ MessagingSteps

MessagingSpec == MessagingInit /\ [][MessagingNext]_vars

\* the store answers and every send settles (the transport times out), timers
\* fire: a request that has been received goes on
MessagingLiveSpec == MessagingSpec /\ WF_vars(MessagingSteps)

\* the sends of the request that were delivered, and those that failed
C25_Delivered == {k \in DOMAIN mailing.sends : mailing.sends[k] = "sent"}
C25_Failed == {k \in DOMAIN mailing.sends : mailing.sends[k] = "failed"}

\* C25: sendMessageToUsers answers with success when only some of the sends
\* fail, and reports successCount = the number of sends that succeeded and
\* failureCount = the number that failed, their sum being the number of
\* recipients
C25_CountsAreExact ==
    (mailing.pc = "done" /\ mailing.n > 0)
        => /\ mailing.response.result = "Ok"
           /\ mailing.response.successCount = Cardinality(C25_Delivered)
           /\ mailing.response.failureCount = Cardinality(C25_Failed)
           /\ mailing.response.successCount + mailing.response.failureCount = mailing.n

\* the part of it that does not tell the sends apart
C25_SuccessDespiteFailures ==
    (mailing.pc = "done" /\ mailing.n > 0)
        => /\ mailing.response.result = "Ok"
           /\ mailing.response.successCount + mailing.response.failureCount = mailing.n

\* a request has answered after a send that failed
C25_SomeFailed ==
    /\ mailing.pc = "done"
    /\ C25_Failed # {}
    /\ C25_Delivered # {}

\* the sends in flight
C30_InFlight == {k \in DOMAIN mailing.sends : mailing.sends[k] = "inFlight"}

\* the batch of recipient k, counted from 1
C30_BatchOf(k) == ((k - 1) \div BatchSize) + 1

\* ceil(n / 10)
C30_Batches(n) == (n + BatchSize - 1) \div BatchSize

C30_Safe ==
    /\ Cardinality(C30_InFlight) <= BatchSize
    /\ \A j, k \in DOMAIN mailing.sends :
          (C30_BatchOf(j) < C30_BatchOf(k) /\ mailing.sends[k] # "waiting")
              => mailing.sends[j] \in {"sent", "failed"}
    /\ \A k \in DOMAIN mailing.sends :
          CopiesIn([to |-> k, template |-> "message"], emails)
              = IF mailing.sends[k] = "waiting" THEN 0 ELSE 1
    /\ (mailing.pc = "done" /\ mailing.n > 0)
          => /\ \A k \in 1..mailing.n : mailing.sends[k] \in {"sent", "failed"}
             /\ mailing.batches = C30_Batches(mailing.n)
             /\ SumCopies(BagToSet(auditLog), auditLog) = 1
    /\ mailing.pc # "done" => auditLog = EmptyBag

\* C30: sendMessageToUsers sends in consecutive batches of at most 10: never
\* more than 10 sends in flight, no send of a batch starts before every send
\* of the batch before has settled, every recipient is sent exactly one
\* email, and a request for n recipients ends after ceil(n/10) batches with
\* one audit log entry
C30_BatchesOfTen ==
    /\ []C30_Safe
    /\ (mailing.pc = "recipients") ~> (mailing.pc = "done")

\* a request for more than ten recipients has ended
C30_Witness ==
    /\ mailing.pc = "done"
    /\ mailing.n > BatchSize
    /\ mailing.batches = 2

----------------------------------------------------------------------------
(* The list of quizzes (quiz.controller.ts, getAllQuizzes), which brings   *)
(* the stored status of every quiz up to date                              *)

QuizStatuses == {"UPCOMING", "ACTIVE", "CLOSED"}

\* lines 23-30: the filter of quizzesToUpdate, at time t
NeedsUpdate(quiz, t) ==
    \/ t < quiz.startAt /\ quiz.status # "UPCOMING"
    \/ t >= quiz.startAt /\ t < quiz.endAt /\ quiz.status # "ACTIVE"
    \/ quiz.endAt < t /\ quiz.status # "CLOSED"

\* lines 36-40: newStatus, at time t
NewStatus(quiz, t) ==
    IF t < quiz.startAt THEN "UPCOMING"
    ELSE IF t >= quiz.startAt /\ t < quiz.endAt THEN "ACTIVE"
    ELSE "CLOSED"

\* lines 9-30: read the quizzes and the clock, keep those whose status is out
\* of date
ListFind(s) ==
    /\ FreeQuizSlot(s)
    /\ LET toUpdate == {q \in DOMAIN quizzes : NeedsUpdate(quizzes[q], now)}
       IN  quizCalls' = [quizCalls EXCEPT ![s] =
              [IdleQuizCall EXCEPT
                  !.kind = "list",
                  !.pc = IF toUpdate = {} THEN "refetch" ELSE "update",
                  !.readAt = now, !.listed = quizzes, !.toUpdate = toUpdate]]
    /\ UNCHANGED <<regVars, mailing, now, quizzes, attempts, quizResponse, everAttempted>>

\* lines 32-46: one round of the loop: write the new status of a quiz kept
ListUpdate(s) ==
    /\ quizCalls[s].kind = "list"
    /\ quizCalls[s].pc = "update"
    /\ LET q == CHOOSE q \in quizCalls[s].toUpdate : TRUE
           rest == quizCalls[s].toUpdate \ {q}
       IN  /\ quizzes' = [quizzes EXCEPT
                 ![q].status = NewStatus(quizCalls[s].listed[q], quizCalls[s].readAt)]
           /\ quizCalls' = [quizCalls EXCEPT
                 ![s].toUpdate = rest,
                 ![s].pc = IF rest = {} THEN "refetch" ELSE "update"]
    /\ UNCHANGED <<regVars, mailing, now, attempts, quizResponse, everAttempted>>

\* a set of quiz ids as a sequence
RECURSIVE InSequence(_)
InSequence(S) ==
    IF S = {} THEN <<>>
    ELSE LET q == CHOOSE x \in S : TRUE IN <<q>> \o InSequence(S \ {q})

\* lines 49-64: read the quizzes again and answer with them
ListRefetch(s) ==
    /\ quizCalls[s].kind = "list"
    /\ quizCalls[s].pc = "refetch"
    /\ LET ids == InSequence(DOMAIN quizzes)
       IN  quizResponse' = [NoResponse EXCEPT
              !.kind = "list", !.result = "Ok",
              !.data = [k \in DOMAIN ids |->
                          [quizId |-> ids[k], status |-> quizzes[ids[k]].status]]]
    /\ quizCalls' = [quizCalls EXCEPT ![s] = IdleQuizCall]
    /\ UNCHANGED <<regVars, mailing, now, quizzes, attempts, everAttempted>>

\* a quiz with any window and any stored status
StatusInit ==
    /\ events = [e \in EventIds |->
                   [capacity |-> MaxCapacity, requiresApproval |-> FALSE,
                    eligibleLevels |-> {}, eligiblePrograms |-> {}]]
    /\ registrations = <<>>
    /\ notifications = EmptyBag
    /\ emails = EmptyBag
    /\ auditLog = EmptyBag
    /\ regCalls = [s \in Slots |-> IdleCall]
    /\ quizzes \in [QuizIds -> {[TheQuiz EXCEPT !.startAt = a, !.endAt = b, !.status = st] :
                                   a \in 1..MaxTime, b \in 1..MaxTime, st \in QuizStatuses}]
    /\ now = 1
    /\ attempts = <<>>
    /\ quizCalls = [s \in Slots |-> IdleQuizCall]
    /\ quizResponse = NoResponse
    /\ everAttempted = {}
    /\ mailing = IdleMailing

StatusNext ==
    \/ \E s \in Slots : ListFind(s)
    \/ \E s \in Slots : ListUpdate(s)
    \/ \E s \in Slots : ListRefetch(s)
    \/ Tick

StatusSpec == StatusInit /\ [][StatusNext]_vars

\* the status of a quiz at time t, by its window
C26_Status(quiz, t) ==
    IF t < quiz.startAt THEN "UPCOMING"
    ELSE IF t < quiz.endAt THEN "ACTIVE"
    ELSE "CLOSED"

\* the request in slot s answers in this step
C26_Answers(s) ==
    /\ quizCalls[s].kind = "list"
    /\ quizCalls[s].pc = "refetch"
    /\ quizCalls'[s].kind = "idle"

C26_Step ==
    \A s \in Slots :
        C26_Answers(s)
            => \A k \in DOMAIN quizResponse'.data :
                  LET q == quizResponse'.data[k].quizId
                      status == C26_Status(quizzes[q], quizCalls[s].readAt)
                  IN  /\ quizResponse'.data[k].status = status
                      /\ quizzes'[q].status = status

\* C26: the status of a quiz is a function of the time and the window: after
\* getAllQuizzes has run at time now, the stored and the returned status of
\* every quiz is UPCOMING if now < start, ACTIVE if start <= now < end and
\* CLOSED if now >= end, whatever status was stored before
C26_StatusFollowsWindow == [][C26_Step]_vars

\* a list read at the very end of the window of a quiz stored as ACTIVE
C26_ReadAtTheEnd ==
    /\ quizResponse.kind = "list"
    /\ \E k \in DOMAIN quizResponse.data :
          /\ quizResponse.data[k].status = "ACTIVE"
          /\ quizzes[quizResponse.data[k].quizId].endAt = now
          /\ quizzes[quizResponse.data[k].quizId].startAt < now

----------------------------------------------------------------------------
(* Claims about the answers of an attempt, checked under ScoringSpec *)

\* the sum of the point values of the questions of a quiz
C27_MaxScore(quiz) ==
    SumSeq([k \in DOMAIN quiz.questions |-> quiz.questions[k].points])

\* C27: every attempt created by submitAttempt stores at most one answer per
\* question, and its totalScore does not exceed the sum of the point values
\* of the quiz's questions, also when the client sends several answers naming
\* the same questionId
C27_OneAnswerPerQuestion ==
    \A i \in DOMAIN attempts :
        LET row == attempts[i]
        IN  /\ \A j, k \in DOMAIN row.answers :
                  row.answers[j].questionId = row.answers[k].questionId => j = k
            /\ row.totalScore <= C27_MaxScore(quizzes[row.quizId])

\* the same for sheets that name every question at most once and spend no
\* time below zero
C27_WhenSheetIsProper ==
    \A i \in DOMAIN attempts :
        LET row == attempts[i]
        IN  (/\ \A j, k \in DOMAIN row.answers :
                   row.answers[j].questionId = row.answers[k].questionId => j = k
             /\ \A j \in DOMAIN row.answers : row.answers[j].timeSpent >= 0)
            => row.totalScore <= C27_MaxScore(quizzes[row.quizId])

\* an attempt with two answers to one question
C27_TwoAnswersToOneQuestion ==
    \E i \in DOMAIN attempts :
        \E j, k \in DOMAIN attempts[i].answers :
            /\ j # k
            /\ attempts[i].answers[j].questionId = attempts[i].answers[k].questionId

----------------------------------------------------------------------------
(* Claims about concurrent check-ins, checked under CheckInSpec *)

\* the request in slot s reports a successful check-in in this step
C28_Succeeds(s) ==
    /\ regCalls[s].kind = "checkIn"
    /\ regCalls[s].pc = "update"
    /\ regCalls'[s].pc = "done"
    /\ regCalls'[s].result = "CheckedIn"

\* a check-in succeeds only on a registration that is not checked in, and a
\* check-in timestamp that is written stays as it is
C28_Step ==
    /\ \A s \in Slots :
          C28_Succeeds(s) => registrations[regCalls[s].regId].checkedInAt = NoTime
    /\ \A i \in DOMAIN registrations :
          registrations[i].checkedInAt # NoTime
              => registrations'[i].checkedInAt = registrations[i].checkedInAt

\* C28: for any interleaving of concurrent checkIn calls with the same event
\* and token, at most one call reports success, and the check-in timestamp,
\* once written, is never overwritten by another call
C28_OneCheckInWins == [][C28_Step]_vars

\* two calls have reported success for one registration
C28_TwoSuccesses ==
    \E s, t \in Slots :
        /\ s # t
        /\ regCalls[s].kind = "checkIn" /\ regCalls[s].result = "CheckedIn"
        /\ regCalls[t].kind = "checkIn" /\ regCalls[t].result = "CheckedIn"
        /\ regCalls[s].pc = "done" /\ regCalls[t].pc = "done"
        /\ regCalls[s].regId = regCalls[t].regId

----------------------------------------------------------------------------
(* Editing a quiz (quiz.controller.ts, updateQuiz)                         *)

\* the ids the store gives to the questions created by createMany, by order
NewQuestionIds == <<"n1", "n2">>

\* req.body of updateQuiz: a new time limit; new questions; the questions
\* as they are stored (timeLimit 0 and questions <<>> stand for an absent
\* field)
UpdateBodies ==
    { [timeLimit |-> 60, questions |-> <<>>],
      [timeLimit |-> 0,
       questions |-> <<[id |-> NULL, points |-> 800,
                        options |-> <<[id |-> "a", isCorrect |-> TRUE],
                                      [id |-> "b", isCorrect |-> FALSE]>>]>>],
      [timeLimit |-> 0, questions |-> TheQuiz.questions] }

\* lines 158-170: hasAttempts && questions && questions.length > 0 &&
\* JSON.stringify(quiz.questions) !== JSON.stringify(questions)
QuestionsLocked(quiz, hasAttempts, body) ==
    hasAttempts /\ Len(body.questions) > 0 /\ quiz.questions # body.questions

\* lines 142-170: read the quiz with its attempts and questions; 404 when it
\* is missing, 400 when it has attempts and the questions sent differ
UpdateFind(s, q, body) ==
    /\ FreeQuizSlot(s)
    /\ IF q \notin DOMAIN quizzes
       THEN /\ Answer("update", q, NULL, "NotFound", FALSE)
            /\ UNCHANGED quizCalls
       ELSE LET hasAttempts == \E i \in DOMAIN attempts : attempts[i].quizId = q
            IN  IF QuestionsLocked(quizzes[q], hasAttempts, body)
                THEN /\ Answer("update", q, NULL, "QuestionsLocked", hasAttempts)
                     /\ UNCHANGED quizCalls
                ELSE /\ quizCalls' = [quizCalls EXCEPT ![s] =
                           [IdleQuizCall EXCEPT
                               !.kind = "update", !.pc = "basic", !.quizId = q,
                               !.update = body, !.hasAttempts = hasAttempts]]
                     /\ UNCHANGED quizResponse
    /\ UNCHANGED <<regVars, mailing, now, quizzes, attempts, everAttempted>>

\* lines 173-186: write the basic info; the questions follow only if the quiz
\* had no attempts when it was read
UpdateBasic(s) ==
    /\ quizCalls[s].kind = "update"
    /\ quizCalls[s].pc = "basic"
    /\ LET q == quizCalls[s].quizId
           body == quizCalls[s].update
       IN  /\ quizzes' = [quizzes EXCEPT
                 ![q].timeLimit = IF body.timeLimit = 0 THEN @ ELSE body.timeLimit]
           /\ quizCalls' = [quizCalls EXCEPT
                 ![s].pc = IF ~quizCalls[s].hasAttempts /\ Len(body.questions) > 0
                           THEN "deleteQuestions" ELSE "final"]
    /\ UNCHANGED <<regVars, mailing, now, attempts, quizResponse, everAttempted>>

\* the stored answers without those that name a question of quiz q
WithoutAnswersOf(q) ==
    [i \in DOMAIN attempts |->
        IF attempts[i].quizId = q
        THEN [attempts[i] EXCEPT !.answers = <<>>]
        ELSE attempts[i]]

\* lines 188-190: prisma.quizQuestion.deleteMany({ where: { quizId } }).  The
\* answers stored by now refer to the questions; the store either deletes
\* them with the questions (cascade) or refuses the delete, and the request
\* fails
UpdateDeleteQuestions(s, cascade) ==
    /\ quizCalls[s].kind = "update"
    /\ quizCalls[s].pc = "deleteQuestions"
    /\ LET q == quizCalls[s].quizId
           referred == \E i \in DOMAIN attempts :
                          attempts[i].quizId = q /\ attempts[i].answers # <<>>
       IN  IF referred /\ ~cascade
           THEN /\ AnswerFrom(s, ErrorHandler("P2003"), FALSE)
                /\ UNCHANGED <<quizzes, attempts>>
           ELSE /\ quizzes' = [quizzes EXCEPT ![q].questions = <<>>]
                /\ attempts' = WithoutAnswersOf(q)
                /\ quizCalls' = [quizCalls EXCEPT ![s].pc = "createQuestions"]
                /\ UNCHANGED quizResponse
    /\ UNCHANGED <<regVars, mailing, now, everAttempted>>

\* lines 193-201: prisma.quizQuestion.createMany: the questions sent are
\* added to the quiz under new ids, with points: q.points || 1000
UpdateCreateQuestions(s) ==
    /\ quizCalls[s].kind = "update"
    /\ quizCalls[s].pc = "createQuestions"
    /\ LET q == quizCalls[s].quizId
           sent == quizCalls[s].update.questions
       IN  quizzes' = [quizzes EXCEPT
              ![q].questions = @ \o [k \in DOMAIN sent |->
                                       [sent[k] EXCEPT !.id = NewQuestionIds[k],
                                                       !.points = IF @ = 0 THEN 1000 ELSE @]]]
    /\ quizCalls' = [quizCalls EXCEPT ![s].pc = "final"]
    /\ UNCHANGED <<regVars, mailing, now, attempts, quizResponse, everAttempted>>

\* lines 205-218: read the quiz again and answer
UpdateFinal(s) ==
    /\ quizCalls[s].kind = "update"
    /\ quizCalls[s].pc = "final"
    /\ AnswerFrom(s, "Updated", FALSE)
    /\ UNCHANGED <<regVars, mailing, now, quizzes, attempts, everAttempted>>

UpdateInit == ScoringInit

UpdateNext ==
    \/ \E s \in Slots, q \in QuizIds, u \in QuizUsers, b \in SubmitBodies :
          SubmitFindAttempt(s, q, u, b)
    \/ \E s \in Slots : SubmitLoadQuiz(s)
    \/ \E s \in Slots : SubmitCreate(s)
    \/ \E s \in Slots, q \in QuizIds \cup {MissingQuiz}, b \in UpdateBodies :
          UpdateFind(s, q, b)
    \/ \E s \in Slots : UpdateBasic(s)
    \/ \E s \in Slots, cascade \in BOOLEAN : UpdateDeleteQuestions(s, cascade)
    \/ \E s \in Slots : UpdateCreateQuestions(s)
    \/ \E s \in Slots : UpdateFinal(s)

UpdateSpec == UpdateInit /\ [][UpdateNext]_vars

\* the questions of a quiz that has an attempt stay as they are
C29_QuestionsKept ==
    \A q \in DOMAIN quizzes :
        (\E i \in DOMAIN attempts : attempts[i].quizId = q)
            => quizzes'[q].questions = quizzes[q].questions

\* every stored answer names a question of its quiz
C29_AnswersRefer ==
    \A i \in DOMAIN attempts :
        \A k \in DOMAIN attempts[i].answers :
            FindById(quizzes[attempts[i].quizId].questions,
                     attempts[i].answers[k].questionId) # {}

\* C29: updateQuiz never deletes or replaces the questions of a quiz that has
\* at least one attempt, also when it interleaves with a submitAttempt on the
\* same quiz: every stored answer refers to a question that still exists
C29_QuestionsOfAttemptedQuizKept ==
    /\ []C29_AnswersRefer
    /\ [][C29_QuestionsKept]_vars

C29_Referential == []C29_AnswersRefer

\* an attempt is stored for a quiz whose questions were replaced after it
C29_ReplacedUnderAttempt ==
    \E i \in DOMAIN attempts :
        /\ quizzes[attempts[i].quizId].questions # TheQuiz.questions
        /\ quizzes[attempts[i].quizId].questions # <<>>
        /\ \A s \in Slots : quizCalls[s].kind = "idle"

====
